---- MODULE Spec2Model ----
(***************************************************************************)
(* A model of the ghoshell orchestration core:                             *)
(*   - OperatorManager.run_dominos and ChainOperator (the operator loop),  *)
(*   - the concrete operator suite of ghost_fmk/operators.py acting on a   *)
(*     process and its task store,                                         *)
(*   - CtxTool.context_attentions.                                         *)
(* The Task, Process and Runtime classes (ghoshell/ghost/runtime.py) are   *)
(* not part of the sources at hand; their operations are modelled from     *)
(* the specification's section 4.9 and flagged as such in the map.         *)
(***************************************************************************)
EXTENDS Integers, Sequences, FiniteSets, TLC

(***************************************************************************)
(* Part I.  The operator run loop (ghost/operate.py) and ChainOperator.    *)
(***************************************************************************)

\* Bounds of the run-loop model.
MaxChain == 2      \* longest list handed to ChainOperator
MaxDepth == 2      \* longest continuation cascade behind one list element
MaxFailAt == 2     \* latest loop iteration at which a call may raise

Elems == 1..MaxChain

\* Operators of the run-loop model.  A Leaf is a scripted operator: the
\* element el of the list at cascade depth `depth`.  "None" is Python's None.
Leaf(e, k) == [kind |-> "Leaf", el |-> e, depth |-> k, chain |-> <<>>]
Chain(s) == [kind |-> "Chain", el |-> 0, depth |-> 0, chain |-> s]
NoOp == [kind |-> "None", el |-> 0, depth |-> 0, chain |-> <<>>]

NoFail == [call |-> "none", at |-> 0]
FailPlans == {NoFail} \cup
    [call : {"is_stackoverflow", "trace", "run", "destroy"}, at : 0..MaxFailAt]

VARIABLES
    d_op,       \* run_dominos: local `op`
    d_count,    \* run_dominos: local `count`
    d_pc,       \* "idle" | "loop" | "finally" | "returned" | "raised"
    d_exc,      \* an exception is in flight
    d_log,      \* the calls made by run_dominos, in order
    d_ran,      \* the scripted operators whose run() was entered, in order
    d_saves,    \* number of save_trace() calls
    d_initial,  \* initial_op
    d_script,   \* per list element: how many continuations its cascade has
    d_nest,     \* the first continuation is wrapped in a ChainOperator
    d_fail,     \* which call raises, and in which iteration
    d_ovf       \* the iteration in which is_stackoverflow answers True (-1: never)

dvars == <<d_op, d_count, d_pc, d_exc, d_log, d_ran, d_saves, d_initial,
           d_script, d_nest, d_fail, d_ovf>>

\* The process model of Part II.
VARIABLES
    input,      \* Context.input: the Input this round answers
    store,      \* Runtime: tid -> stored Task (NoTask when absent)
    process,    \* Runtime: the stored Process
    op,         \* run_dominos: the operator to run next (NoneOp: round over)
    count,      \* run_dominos: the operators run so far in this round
    ran,        \* the operator that ran last
    was,        \* the stored Task of that operator before it ran
    fired,      \* the events fired by that operator, in order
    error,      \* the exception that operator raised ("none" when none)
    sent        \* the async inputs that operator sent

pvars == <<input, store, process, op, count, ran, was, fired, error, sent>>

\* The context model of Part III.
VARIABLES
    c_root,       \* process.root
    c_awaiting,   \* process.awaiting
    c_waiting,    \* process.waiting
    c_level,      \* tid -> Task.level
    c_attentions, \* tid -> Task.attentions (a list of URLs; <<>> when unset)
    c_result,     \* the map context_attentions returned
    c_pc,         \* "idle" before the call, "done" after context_attentions,
                  \* "intentions" after context_intentions
    c_blocking,   \* process.blocking
    c_url         \* tid -> Task.url, the URL of the task's own stage

cvars == <<c_root, c_awaiting, c_waiting, c_level, c_attentions, c_result,
           c_pc, c_blocking, c_url>>

\* The operator template of Part IV.
VARIABLES
    a_hooks,    \* what _intercept, _run_operation and _fallback answer
    a_pc,       \* "idle" | "run" | "operate" | "fallback" | "returned" | "raised"
    a_calls,    \* the hooks AbsOperator.run has called, in order
    a_ret       \* what AbsOperator.run returned

avars == <<a_hooks, a_pc, a_calls, a_ret>>

\* The command-line intention driver of Part V.
VARIABLES
    m_text,     \* the text of the input, a sequence of atoms
    m_metas,    \* the candidate commands, in registration order
    m_pc,       \* "idle" | "call" | "done"
    m_out       \* what match_raw_text returned or raised

mvars == <<m_text, m_metas, m_pc, m_out>>

\* The resolver locator of Part VI.
VARIABLES
    u_heap,     \* address -> the dict stored there (Free when none)
    u_src,      \* the source URL; its args is an address
    u_copy,     \* the URL that to_stage / new_args returned (NoUrl before)
    u_call,     \* the call made: method, stage given, map given
    u_orig,     \* the source URL and the heap before the call and on return
    u_via,      \* the objects whose args map was written since
    u_writes,   \* number of writes since
    u_pc        \* "idle" | "ready" | "copied"

uvars == <<u_heap, u_src, u_copy, u_call, u_orig, u_via, u_writes, u_pc>>

\* The agent stage of Part VII.
VARIABLES
    f_config,   \* AgentStageConfig: the four sources of functions
    f_cached,   \* AgentStage._cached_funcs (NotCached: None)
    f_ret,      \* what the last llm_funcs() returned
    f_builds,   \* number of runs of _llm_funcs
    f_calls,    \* number of calls of llm_funcs
    f_pc        \* "idle" | "ready" | "returned" | "raised"

fvars == <<f_config, f_cached, f_ret, f_builds, f_calls, f_pc>>

\* The stage lookup of Part VIII.
VARIABLES
    s_registered,  \* the resolver names the mindset has a Think for
    s_stages,      \* resolver name -> the stage names its Think declares
    s_think,       \* the resolver name asked for
    s_stage,       \* the stage name asked for
    s_out,         \* what the call returned or raised
    s_pc           \* "idle" | "stage" (force_fetch_stage) | "think" (force_fetch)

svars == <<s_registered, s_stages, s_think, s_stage, s_out, s_pc>>

\* The event of Part IX.
VARIABLES
    e_task,     \* the stored Task of the event's target (NoETask when none)
    e_was,      \* that Task as stored before the event
    e_given,    \* the Thought as handed to the stage handler
    e_thought,  \* the Thought as the stage handler left it
    e_log,      \* the steps taken, in order
    e_pc        \* "idle" | "ready" | "fired" | "ran"

evars == <<e_task, e_was, e_given, e_thought, e_log, e_pc>>

\* The models of Parts IV and later, as seen from Parts I to III.
xvars == <<avars, mvars, uvars, fvars, svars, evars>>

vars == <<dvars, pvars, cvars, xvars>>

\* Sequences without repetition over a set, up to a length.
RECURSIVE DistinctSeqs(_, _)
DistinctSeqs(S, n) ==
    IF n = 0 THEN {<<>>}
    ELSE {<<>>} \cup
         UNION {{<<x>> \o t : t \in DistinctSeqs(S \ {x}, n - 1)} : x \in S}

\* What a scripted operator's run() returns.
LeafContinuation(l) ==
    IF l.depth >= d_script[l.el] THEN NoOp
    ELSE IF d_nest /\ l.depth = 0 THEN Chain(<<Leaf(l.el, 1)>>)
    ELSE Leaf(l.el, l.depth + 1)

RECURSIVE OperatorRun(_, _)

\* A ChainOperator.run with the splice lost: the continuation is dropped.
ChainOperatorRunDropsAfter(c, raises) ==
    IF Len(c.chain) = 0 THEN [ran |-> <<>>, after |-> NoOp, exc |-> FALSE]
    ELSE LET r == OperatorRun(Head(c.chain), raises)
             rest == Tail(c.chain)
         IN  IF r.exc THEN r
             ELSE [ran |-> r.ran, after |-> Chain(rest), exc |-> FALSE]

\* ChainOperator.run
ChainOperatorRun(c, raises) ==
    IF Len(c.chain) = 0 THEN [ran |-> <<>>, after |-> NoOp, exc |-> FALSE]
    ELSE LET r == OperatorRun(Head(c.chain), raises)
             rest == Tail(c.chain)
         IN  IF r.exc THEN r
             ELSE IF r.after = NoOp
                  THEN [ran |-> r.ran, after |-> Chain(rest), exc |-> FALSE]
             ELSE IF Len(rest) = 0
                  THEN [ran |-> r.ran, after |-> r.after, exc |-> FALSE]
             ELSE [ran |-> r.ran, after |-> Chain(<<r.after>> \o rest),
                   exc |-> FALSE]

\* Operator.run, dispatched on the operator's class.
OperatorRun(o, raises) ==
    IF o.kind = "Chain" THEN ChainOperatorRun(o, raises)
    ELSE IF raises THEN [ran |-> <<o>>, after |-> NoOp, exc |-> TRUE]
    ELSE [ran |-> <<o>>, after |-> LeafContinuation(o), exc |-> FALSE]

Call(name, o, res) == [call |-> name, op |-> o, n |-> d_count, result |-> res]

Raises(name) == d_fail.call = name /\ d_fail.at = d_count

DominoInit ==
    /\ d_initial \in {Chain([i \in 1..Len(t) |-> Leaf(t[i], 0)]) :
                            t \in DistinctSeqs(Elems, MaxChain)}
                     \cup {Leaf(e, 0) : e \in Elems}
    /\ d_script \in [Elems -> 0..MaxDepth]
    /\ d_nest \in BOOLEAN
    /\ d_fail \in FailPlans
    /\ d_ovf \in -1..MaxFailAt
    /\ d_op = NoOp
    /\ d_count = 0
    /\ d_pc = "idle"
    /\ d_exc = FALSE
    /\ d_log = <<>>
    /\ d_ran = <<>>
    /\ d_saves = 0

\* run_dominos: op = initial_op; try: count = 0
run_dominos_enter ==
    /\ d_pc = "idle"
    /\ d_op' = d_initial
    /\ d_pc' = "loop"
    /\ UNCHANGED <<d_count, d_exc, d_log, d_ran, d_saves, d_initial,
                   d_script, d_nest, d_fail, d_ovf>>
    /\ UNCHANGED <<pvars, cvars, xvars>>

\* `op = after` with the stack-overflow answer acted upon: the loop stops.
NextOperatorStopsOnOverflow(after, ovf) == IF ovf THEN NoOp ELSE after

\* run_dominos: `op = after`; the answer of is_stackoverflow is not used.
NextOperator(after, ovf) == after

\* One iteration of `while op is not None`.
run_dominos_iterate ==
    /\ d_pc = "loop"
    /\ d_op # NoOp
    /\  LET r == OperatorRun(d_op, Raises("run"))
            ovf == (d_ovf = d_count)
            c1 == Call("is_stackoverflow", d_op, ovf)
            c2 == Call("trace", d_op, FALSE)
            c3 == Call("run", d_op, FALSE)
            c4 == Call("destroy", d_op, FALSE)
        IN
        IF Raises("is_stackoverflow")
        THEN /\ d_log' = d_log \o <<c1>>
             /\ d_exc' = TRUE /\ d_pc' = "finally"
             /\ UNCHANGED <<d_op, d_count, d_ran>>
        ELSE IF Raises("trace")
        THEN /\ d_log' = d_log \o <<c1, c2>>
             /\ d_exc' = TRUE /\ d_pc' = "finally"
             /\ UNCHANGED <<d_op, d_count, d_ran>>
        ELSE IF r.exc
        THEN /\ d_log' = d_log \o <<c1, c2, c3>>
             /\ d_ran' = d_ran \o r.ran
             /\ d_count' = d_count + 1
             /\ d_exc' = TRUE /\ d_pc' = "finally"
             /\ UNCHANGED d_op
        ELSE IF Raises("destroy")
        THEN /\ d_log' = d_log \o <<c1, c2, c3, c4>>
             /\ d_ran' = d_ran \o r.ran
             /\ d_count' = d_count + 1
             /\ d_exc' = TRUE /\ d_pc' = "finally"
             /\ UNCHANGED d_op
        ELSE /\ d_log' = d_log \o <<c1, c2, c3, c4>>
             /\ d_ran' = d_ran \o r.ran
             /\ d_count' = d_count + 1
             /\ d_op' = NextOperator(r.after, ovf)
             /\ UNCHANGED <<d_exc, d_pc>>
    /\ UNCHANGED <<d_saves, d_initial, d_script, d_nest, d_fail, d_ovf>>
    /\ UNCHANGED <<pvars, cvars, xvars>>

\* `while op is not None` is false: leave the try block.
run_dominos_exit ==
    /\ d_pc = "loop"
    /\ d_op = NoOp
    /\ d_pc' = "finally"
    /\ UNCHANGED <<d_op, d_count, d_exc, d_log, d_ran, d_saves, d_initial,
                   d_script, d_nest, d_fail, d_ovf>>
    /\ UNCHANGED <<pvars, cvars, xvars>>

\* The finally clause without its body on the failing path.
run_dominos_finally_skips_on_raise ==
    /\ d_pc = "finally"
    /\ d_saves' = IF d_exc THEN d_saves ELSE d_saves + 1
    /\ d_pc' = IF d_exc THEN "raised" ELSE "returned"
    /\ UNCHANGED <<d_op, d_count, d_exc, d_log, d_ran, d_initial,
                   d_script, d_nest, d_fail, d_ovf>>
    /\ UNCHANGED <<pvars, cvars, xvars>>

\* finally: self.save_trace(); then return, or re-raise what is in flight.
run_dominos_finally ==
    /\ d_pc = "finally"
    /\ d_saves' = d_saves + 1
    /\ d_pc' = IF d_exc THEN "raised" ELSE "returned"
    /\ UNCHANGED <<d_op, d_count, d_exc, d_log, d_ran, d_initial,
                   d_script, d_nest, d_fail, d_ovf>>
    /\ UNCHANGED <<pvars, cvars, xvars>>

(***************************************************************************)
(* Part II.  The operator suite (ghost_fmk/operators.py) on a process.     *)
(*                                                                         *)
(* The task store follows the persistence contract of the specification:   *)
(* access is fetch - mutate - store, and a mutation of a fetched task      *)
(* that is not followed by store_task is not in the store.                 *)
(***************************************************************************)

\* Bounds of the process model.
MaxTasks == 3      \* resolvers (one task id per resolver)
MaxPending == 2    \* longest pending-stage queue
MaxOps == 3        \* operators run in one round

Tids == {ToString(i) : i \in 1..MaxTasks}
NoTid == ""                 \* Python None (or "") where a tid is expected
RootTid == "1"
Stages == {"", "s"}         \* the stages every resolver declares
NoStage == "None"           \* Python None where a stage is expected
VarsNone == "none"          \* Task.vars / a result that is None

\* Stage.reactions(): the reaction names a stage declares.
StageReactions(stage) == IF stage = "" THEN {"a", "b"} ELSE {}

\* Think.result(thought): the task's output, decoded from its variables.
ThinkResult(thought_vars) == <<"result", thought_vars>>

NoTask == [status |-> "absent", stage |-> "", pending |-> <<>>,
           callbacks |-> {}, vars |-> VarsNone, attentions |-> {}]

\* Task(tid=tid, resolver=url.resolver, stage="", args=...): a fresh Task.
NewTask == [status |-> "NEW", stage |-> "", pending |-> <<>>,
            callbacks |-> {}, vars |-> VarsNone, attentions |-> {}]

\* RuntimeTool.new_task
new_task == NewTask

\* ---- operators as values ----
MkOp(k) == [kind |-> k, tid |-> NoTid, stage |-> NoStage, stages |-> <<>>,
            target |-> NoTid, flag |-> FALSE, filter |-> "all",
            chain |-> <<>>, reaction |-> "None"]
NoneOp == MkOp("None")
ReceiveInputOp == MkOp("ReceiveInput")
\* IntendingOperator(matched): `target` is the task id of matched.target
\* (NoTid when the match names no target), `stage` the target's stage and
\* `reaction` matched.reaction ("None" when the match names none).
IntendingOp(target, stage, reaction) ==
    [MkOp("Intending") EXCEPT !.target = target, !.stage = stage,
                              !.reaction = reaction]
TaskedMessageOp == MkOp("TaskedMessage")
UnhandledInputOp == MkOp("UnhandledInput")
ScheduleOp == MkOp("Schedule")
ResetOp == MkOp("Reset")
\* ActivateOperator(to, fr, target_tid): `to` is the URL of task toTid at toStage
ActivateOp(toTid, toStage, target_tid) ==
    [MkOp("Activate") EXCEPT !.target = toTid, !.stage = toStage,
                             !.tid = target_tid]
RewindOp(repeat) == [MkOp("Rewind") EXCEPT !.flag = repeat]
AwaitOp(tid, stage, filter) ==
    [MkOp("Await") EXCEPT !.tid = tid, !.stage = stage, !.filter = filter]
ForwardOp(tid, stages) ==
    [MkOp("Forward") EXCEPT !.tid = tid, !.stages = stages]
FinishOp(tid, stage) == [MkOp("Finish") EXCEPT !.tid = tid, !.stage = stage]
WithdrawOp(k, tid, at_stage) ==
    [MkOp(k) EXCEPT !.tid = tid, !.stage = at_stage]
RestartOp(tid) == [MkOp("Restart") EXCEPT !.tid = tid]
DependOnOp(tid, stage, target) ==
    [MkOp("DependOn") EXCEPT !.tid = tid, !.stage = stage, !.target = target]
YieldToOp(tid, stage, is_callback) ==
    [MkOp("YieldTo") EXCEPT !.tid = tid, !.stage = stage,
                            !.flag = is_callback]

\* ChainOperator(chain)
ChainOp(chain) == [MkOp("Chain") EXCEPT !.chain = chain]

WithdrawKinds == {"Cancel", "Fail", "Quit"}

\* The `only` / `exclude` arguments of AwaitOperator.
ApplyFilter(names, f) ==
    CASE f = "only_a" -> names \cap {"a"}
      [] f = "exclude_ab" -> names \ {"a", "b"}
      [] OTHER -> names

\* ---- Process and Runtime (specification, section 4.9) ----
Without(seq, x) == SelectSeq(seq, LAMBDA y : y # x)

\* The status-indexed lists of the process follow the stored status.
Refile(pr, tid, status) ==
    LET c == [pr EXCEPT !.blocking = Without(@, tid),
                        !.waiting = Without(@, tid),
                        !.canceling = Without(@, tid),
                        !.failing = Without(@, tid)]
    IN  CASE status = "CANCELING" -> [c EXCEPT !.canceling = Append(@, tid)]
          [] status = "FAILING" -> [c EXCEPT !.failing = Append(@, tid)]
          [] status \in {"RUNNING", "PREEMPTING"} /\ tid # pr.awaiting ->
                [c EXCEPT !.blocking = Append(@, tid)]
          [] status = "WAITING" /\ tid \notin {pr.awaiting, pr.root} ->
                [c EXCEPT !.waiting = Append(@, tid)]
          [] OTHER -> c

\* Runtime.store_task
runtime_store_task(S, tid, task) ==
    [store |-> [S.store EXCEPT ![tid] = task],
     process |-> Refile(S.process, tid, task.status)]

\* Runtime.store_process
runtime_store_process(S, pr) == [S EXCEPT !.process = pr]

\* Runtime.fetch_task: None (NoTask) for an unknown or absent tid.
runtime_fetch_task(S, tid) == IF tid \in Tids THEN S.store[tid] ELSE NoTask

\* Process.await_at: promote tid, demote the prior occupant to waiting.
process_await_at(S, tid) ==
    LET pr == S.process
        prior == pr.awaiting
        p1 == [pr EXCEPT !.awaiting = tid,
                         !.waiting = Without(@, tid),
                         !.blocking = Without(@, tid)]
    IN  IF prior \in Tids /\ prior # tid /\ prior # pr.root
           /\ S.store[prior].status = "WAITING"
        THEN [p1 EXCEPT !.waiting = <<prior>> \o Without(@, prior)]
        ELSE p1

\* Process.fallback
process_fallback(S) ==
    LET pr == S.process IN
    IF Len(pr.blocking) > 0 THEN Head(pr.blocking)
    ELSE IF Len(pr.waiting) > 0 THEN Head(pr.waiting)
    ELSE IF runtime_fetch_task(S, pr.root).status = "WAITING" THEN pr.root
    ELSE NoTid

\* Process.reset: collapse the task set to just root.
process_reset(S) ==
    [store |-> [t \in Tids |-> IF t = S.process.root THEN S.store[t] ELSE NoTask],
     process |-> [S.process EXCEPT !.awaiting = S.process.root,
                                   !.blocking = <<>>, !.waiting = <<>>,
                                   !.canceling = <<>>, !.failing = <<>>,
                                   !.quiting = FALSE]]

\* Task.restart
task_restart(task) ==
    [task EXCEPT !.status = "NEW", !.stage = "", !.pending = <<>>,
                 !.vars = VarsNone]

\* Task.insert
task_insert(task, stages) == [task EXCEPT !.pending = @ \o stages]

\* Task.await_at
task_await_at(task, stage, attentions) ==
    [task EXCEPT !.status = "WAITING",
                 !.stage = IF stage = NoStage THEN @ ELSE stage,
                 !.attentions = attentions]

\* Task.to_tasked, with the stage the caller then sets on it
to_tasked(tid, task, stage) ==
    [tid |-> tid, stage |-> stage, status |-> task.status, vars |-> task.vars]

\* ---- events and stage handlers ----
\* An event as its stage handler meets it: `seen` is the stored status of
\* the task at that moment, `after` the operator the handler answered.
Ev(kind, tid, stage, seen, result, after) ==
    [kind |-> kind, tid |-> tid, stage |-> stage, seen |-> seen,
     result |-> result, after |-> after]

\* What a stage handler, bound to task t through Mind, may return.
HandlerOps(S, t) ==
    LET task == IF S.store[t] = NoTask THEN NewTask ELSE S.store[t]
        room == Len(task.pending) < MaxPending
    IN  {NoneOp, ResetOp, RestartOp(t), RewindOp(FALSE), RewindOp(TRUE),
         ForwardOp(t, <<>>), FinishOp(t, "s"),
         AwaitOp(t, NoStage, "all"), AwaitOp(t, "s", "exclude_ab"),
         AwaitOp(t, NoStage, "only_a")}
        \cup (IF room THEN {ForwardOp(t, <<"s">>)} ELSE {})
        \cup {WithdrawOp(k, t, NoStage) : k \in WithdrawKinds}
        \cup {DependOnOp(t, "s", u) : u \in Tids}
        \cup {YieldToOp(t, "s", cb) :
                cb \in IF room \/ S.process.parent THEN BOOLEAN ELSE {FALSE}}
        \cup {ActivateOp(u, st, NoTid) : u \in Tids \ {t}, st \in Stages}

\* Thought.vars(): the variables of a thought after merge_task_to_thought;
\* a thought whose task had none carries the defaults of its Think.
ThoughtVars(task) == IF task.vars = VarsNone THEN "a" ELSE task.vars

\* RuntimeTool.merge_thought_to_task
merge_thought_to_task(thought_vars, task) == [task EXCEPT !.vars = thought_vars]

\* RuntimeTool.fire_event
fire_event(S, kind, tid, stage, result, h) ==
    LET task == S.store[tid]
        base == IF task = NoTask THEN new_task ELSE task
    IN  [S |-> runtime_store_task(S, tid,
                  merge_thought_to_task(ThoughtVars(task), base)),
         ev |-> Ev(kind, tid, stage, task.status, result, h),
         after |-> h]

\* RuntimeTool.task_result
task_result(task) ==
    IF task.status # "FINISHED" THEN VarsNone ELSE ThinkResult(task.vars)

\* ---- outcome of one operator's run ----
Out(S, next, ev, snd) ==
    [S |-> S, next |-> next, fired |-> ev, error |-> "none", sent |-> snd]
Raise(S, ev, err) ==
    [S |-> S, next |-> NoneOp, fired |-> ev, error |-> err, sent |-> <<>>]

Cur == [store |-> store, process |-> process]

\* ---- the operators' run(), as functions of the stored state ----

\* The task an operator works on.
OpTid(o) ==
    IF o.kind = "Intending" \/ (o.kind = "Activate" /\ o.tid = NoTid)
    THEN o.target ELSE o.tid

\* ActivateOperator._run_operation, `case TaskStatus.NEW`, with the store of
\* RUNNING lost.
ActivateKeepsNew(S, tid) == S

\* ActivateOperator._run_operation, `case TaskStatus.NEW`:
\* task.status = RUNNING; store_task
ActivateStoreRunning(S, tid) ==
    runtime_store_task(S, tid, [S.store[tid] EXCEPT !.status = "RUNNING"])

\* ActivateOperator._run_operation.  The two `case A, B:` arms are sequence
\* patterns, which a scalar status never matches: every status other than
\* NEW falls to `case _`.
ActivateRun(S, o, h) ==
    IF o.tid # NoTid /\ runtime_fetch_task(S, o.tid) = NoTask
    THEN Raise(S, <<>>, "RuntimeException")
    ELSE
    LET tid == OpTid(o)
        S1 == IF S.store[tid] = NoTask
              THEN runtime_store_task(S, tid, new_task) ELSE S
        S2 == IF S1.store[tid].status = "NEW"
              THEN ActivateStoreRunning(S1, tid) ELSE S1
        f == fire_event(S2, "Activating", tid, o.stage, VarsNone, h)
    IN  Out(f.S, f.after, <<f.ev>>, <<>>)

\* RewindOperator._run_operation
RewindRun(S, o) ==
    IF o.flag THEN Out(S, AwaitOp(NoTid, NoStage, "all"), <<>>, <<>>)
    ELSE Out(S, NoneOp, <<>>, <<>>)

\* AwaitOperator._run_operation with the `if tid is not None` guard lost.
AwaitSetAwaitingUnguarded(S, o) == [S.process EXCEPT !.awaiting = o.tid]

\* AwaitOperator._run_operation: `if tid is not None: process.awaiting = tid`
AwaitSetAwaiting(S, o) ==
    IF o.tid # NoTid THEN [S.process EXCEPT !.awaiting = o.tid] ELSE S.process

\* AwaitOperator._run_operation.  Attention(to=...) lacks the required
\* field `fr`, so building an Attention raises a validation error.
AwaitRun(S, o) ==
    LET S1 == runtime_store_process(S, AwaitSetAwaiting(S, o))
        task == runtime_fetch_task(S1, o.tid)
        names == ApplyFilter(StageReactions(task.stage), o.filter)
    IN  IF task = NoTask THEN Raise(S1, <<>>, "AttributeError")
        ELSE IF task.status = "WAITING"
                /\ (o.stage = NoStage \/ task.stage = o.stage)
        THEN Out(S1, NoneOp, <<>>, <<>>)
        ELSE IF StageReactions(task.stage) = {} THEN Out(S1, NoneOp, <<>>, <<>>)
        ELSE IF names # {} THEN Raise(S1, <<>>, "ValidationError")
        ELSE Out(runtime_store_task(S1, o.tid,
                                    task_await_at(task, o.stage, names)),
                 NoneOp, <<>>, <<>>)

\* ForwardOperator._run_operation: insert the stages and store the task.
ForwardInsert(S, o) ==
    IF Len(o.stages) > 0
    THEN runtime_store_task(S, o.tid, task_insert(S.store[o.tid], o.stages))
    ELSE S

\* ForwardOperator._run_operation and _forward.  With a pending stage,
\* _forward calls task.url.copy_with(stage=_next), and URL (ghost/url.py)
\* defines to_stage and new_args but no copy_with; task.forward() has
\* popped the fetched task only.
ForwardRun(S, o) ==
    IF runtime_fetch_task(S, o.tid) = NoTask
    THEN Raise(S, <<>>, "AttributeError")
    ELSE
    LET S1 == ForwardInsert(S, o)
        task == S1.store[o.tid]
    IN  IF Len(task.pending) > 0
        THEN Raise(S1, <<>>, "AttributeError")
        ELSE Out(S1, FinishOp(o.tid, task.stage), <<>>, <<>>)

\* FinishOperator._run_operation, the loop over the listeners
\* (`ptr.status = TaskStatus.PREEMPTING` for each), had
\* fetch_process_tasks_by_ids returned them.
RECURSIVE StoreAll(_, _, _)
StoreAll(S, tids, status) ==
    IF tids = {} THEN S
    ELSE LET t == CHOOSE x \in tids : TRUE
         IN  StoreAll(runtime_store_task(S, t, [S.store[t] EXCEPT
                                                  !.status = status]),
                      tids \ {t}, status)

FinishRunFlipsAll(S, o) ==
    IF runtime_fetch_task(S, o.tid) = NoTask
    THEN Raise(S, <<>>, "AttributeError")
    ELSE Out(StoreAll(S, S.store[o.tid].callbacks, "PREEMPTING"),
             ScheduleOp, <<>>, <<>>)

\* FinishOperator._run_operation with the task stored after task.done().
FinishRunStoresDone(S, o) ==
    IF runtime_fetch_task(S, o.tid) = NoTask
    THEN Raise(S, <<>>, "AttributeError")
    ELSE
    LET done == [S.store[o.tid] EXCEPT !.status = "FINISHED",
                                       !.stage = o.stage, !.callbacks = {}]
        S1 == runtime_store_task(S, o.tid, done)
    IN  IF S.store[o.tid].callbacks = {} THEN Out(S1, ScheduleOp, <<>>, <<>>)
        ELSE Raise(S1, <<>>, "AttributeError")

\* FinishOperator._run_operation and _fallback.  task.done() changes the
\* fetched task only; with listeners, RuntimeTool.fetch_process_tasks_by_ids
\* is called, which RuntimeTool does not define.
FinishRun(S, o) ==
    IF runtime_fetch_task(S, o.tid) = NoTask
    THEN Raise(S, <<>>, "AttributeError")
    ELSE IF S.store[o.tid].callbacks = {}
    THEN Out(S, ScheduleOp, <<>>, <<>>)
    ELSE Raise(S, <<>>, "AttributeError")

\* UnhandledInputOperator._run_operation with the test
\* `root_task.tid == awaiting_task.tid` lost: the root is asked as well
\* when it is the awaiting task.
UnhandledInputRunAsksRootToo(S, h1, h2) ==
    LET aw == S.process.awaiting
        root == S.process.root
        f1 == fire_event(S, "Received", aw, S.store[aw].stage, VarsNone, h1)
        f2 == fire_event(f1.S, "Received", root, f1.S.store[root].stage,
                         VarsNone, h2)
    IN  IF runtime_fetch_task(S, aw) = NoTask
        THEN Raise(S, <<>>, "RuntimeException")
        ELSE IF f1.after # NoneOp THEN Out(f1.S, f1.after, <<f1.ev>>, <<>>)
        ELSE IF runtime_fetch_task(f1.S, root) = NoTask
        THEN Raise(f1.S, <<f1.ev>>, "RuntimeException")
        ELSE Out(f2.S, IF f2.after # NoneOp THEN f2.after ELSE RewindOp(FALSE),
                 <<f1.ev, f2.ev>>, <<>>)

\* UnhandledInputOperator._run_operation and _fallback
UnhandledInputRun(S, h1, h2) ==
    LET aw == S.process.awaiting IN
    IF runtime_fetch_task(S, aw) = NoTask
    THEN Raise(S, <<>>, "RuntimeException")
    ELSE
    LET f1 == fire_event(S, "Received", aw, S.store[aw].stage, VarsNone, h1)
        root == S.process.root
    IN  IF f1.after # NoneOp THEN Out(f1.S, f1.after, <<f1.ev>>, <<>>)
        ELSE IF runtime_fetch_task(f1.S, root) = NoTask
        THEN Raise(f1.S, <<f1.ev>>, "RuntimeException")
        ELSE IF root = aw THEN Out(f1.S, RewindOp(FALSE), <<f1.ev>>, <<>>)
        ELSE
        LET f2 == fire_event(f1.S, "Received", root, f1.S.store[root].stage,
                             VarsNone, h2)
        IN  Out(f2.S, IF f2.after # NoneOp THEN f2.after ELSE RewindOp(FALSE),
                <<f1.ev, f2.ev>>, <<>>)

WithdrawEvent(k) ==
    CASE k = "Cancel" -> "Canceling" [] k = "Fail" -> "Failing"
      [] OTHER -> "Quiting"

\* WithdrawOperator (Cancel, Fail, Quit): _intercept, _run_operation,
\* _fallback.  task.done() changes the fetched task only; with listeners
\* RuntimeTool.fetch_process_tasks_by_ids is called, and QuitOperator calls
\* RuntimeTool.set_quiting: RuntimeTool defines neither.
WithdrawRun(S, o, h) ==
    IF runtime_fetch_task(S, o.tid) = NoTask
    THEN IF o.kind = "Quit" THEN Raise(S, <<>>, "AttributeError")
         ELSE Out(S, ScheduleOp, <<>>, <<>>)
    ELSE
    LET f == fire_event(S, WithdrawEvent(o.kind), o.tid, S.store[o.tid].stage,
                        VarsNone, h)
    IN  IF f.after # NoneOp
        THEN IF o.kind = "Quit" THEN Raise(f.S, <<f.ev>>, "AttributeError")
             ELSE Out(f.S, f.after, <<f.ev>>, <<>>)
        ELSE IF f.S.store[o.tid].callbacks # {}
        THEN Raise(f.S, <<f.ev>>, "AttributeError")
        ELSE IF o.kind = "Quit" THEN Raise(f.S, <<f.ev>>, "AttributeError")
        ELSE Out(f.S, ScheduleOp, <<f.ev>>, <<>>)

\* ScheduleOperator._preempt
SchedulePreempt(S, tid, h) ==
    LET f == fire_event(S, "Preempted", tid, S.store[tid].stage, VarsNone, h)
    IN  Out(f.S, f.after, <<f.ev>>, <<>>)

\* ScheduleOperator._run_operation with the failing queue looked at first.
ScheduleQueuesFailingFirst(S) ==
    IF Len(S.process.failing) > 0
    THEN WithdrawOp("Fail", Head(S.process.failing), NoStage)
    ELSE IF Len(S.process.canceling) > 0
    THEN WithdrawOp("Cancel", Head(S.process.canceling), NoStage)
    ELSE NoneOp

\* ScheduleOperator._run_operation, the two withdrawal queues
ScheduleQueues(S) ==
    IF Len(S.process.canceling) > 0
    THEN WithdrawOp("Cancel", Head(S.process.canceling), NoStage)
    ELSE IF Len(S.process.failing) > 0
    THEN WithdrawOp("Fail", Head(S.process.failing), NoStage)
    ELSE NoneOp

\* ScheduleOperator._run_operation without the `if process.quiting` arm.
ScheduleRunIgnoresQuiting(S, h) ==
    IF ScheduleQueues(S) # NoneOp THEN Out(S, ScheduleQueues(S), <<>>, <<>>)
    ELSE
    LET fb == process_fallback(S) IN
    IF fb = NoTid THEN Raise(S, <<>>, "AttributeError")
    ELSE IF runtime_fetch_task(S, fb).status = "RUNNING"
    THEN Out(S, ForwardOp(fb, <<>>), <<>>, <<>>)
    ELSE SchedulePreempt(S, fb, h)

\* ScheduleOperator._run_operation.  `tid = fallback.tid` precedes the
\* `fallback is not None` test, so an absent fallback raises; every path
\* with a fallback returns, which leaves the code after it unreachable.
ScheduleRun(S, h) ==
    IF ScheduleQueues(S) # NoneOp THEN Out(S, ScheduleQueues(S), <<>>, <<>>)
    ELSE
    LET fb == process_fallback(S) IN
    IF fb = NoTid THEN Raise(S, <<>>, "AttributeError")
    ELSE IF S.process.quiting
    THEN Out(S, WithdrawOp("Quit", fb, NoStage), <<>>, <<>>)
    ELSE IF runtime_fetch_task(S, fb).status = "RUNNING"
    THEN Out(S, ForwardOp(fb, <<>>), <<>>, <<>>)
    ELSE SchedulePreempt(S, fb, h)

\* ResetOperator._run_operation
ResetRun(S, h) ==
    LET S1 == process_reset(S)
        root == S1.process.root
    IN  IF runtime_fetch_task(S1, root) = NoTask
        THEN Raise(S1, <<>>, "RuntimeException")
        ELSE LET f == fire_event(S1, "Activating", root, S1.store[root].stage,
                                 VarsNone, h)
             IN  Out(f.S, f.after, <<f.ev>>, <<>>)

\* RestartOperator._run_operation
RestartRun(S, o) ==
    IF runtime_fetch_task(S, o.tid) = NoTask
    THEN Raise(S, <<>>, "RuntimeException")
    ELSE
    LET task == S.store[o.tid]
        S1 == IF task.status # "NEW"
              THEN runtime_store_task(S, o.tid, task_restart(task)) ELSE S
    IN  Out(S1, ActivateOp(o.tid, S1.store[o.tid].stage, o.tid), <<>>, <<>>)

\* DependOnOperator._run_operation, had store_task accepted the two tasks
\* of `case _`: the target is stored with the listener, the task DEPENDING
\* at the stage, and Activate of the target follows.
DependOnRunRegisters(S, o) ==
    IF runtime_fetch_task(S, o.tid) = NoTask
    THEN Raise(S, <<>>, "RuntimeException")
    ELSE
    LET S1 == IF S.store[o.target] = NoTask
              THEN runtime_store_task(S, o.target, new_task) ELSE S
        target == S1.store[o.target]
        S2 == runtime_store_task(S1, o.target,
                                 [target EXCEPT !.callbacks = @ \cup {o.tid}])
        S3 == runtime_store_task(S2, o.tid,
                                 [S2.store[o.tid] EXCEPT !.status = "DEPENDING",
                                                         !.stage = o.stage])
    IN  IF target.status = "FINISHED" THEN Raise(S1, <<>>, "AttributeError")
        ELSE IF target.status = "DEAD"
        THEN Out(S1, WithdrawOp("Cancel", o.tid, NoStage), <<>>, <<>>)
        ELSE Out(S3, ActivateOp(o.target, S3.store[o.target].stage, o.target),
                 <<>>, <<>>)

\* DependOnOperator._run_operation.  `case TaskStatus.FINISHED` builds its
\* event from target_task.url.copy_with(), which URL does not define; in
\* `case _` the call RuntimeTool.store_task(ctx, target_task, self_task)
\* passes one task more than store_task accepts, after add_callback and
\* depend have changed the fetched tasks only.
DependOnRun(S, o) ==
    IF runtime_fetch_task(S, o.tid) = NoTask
    THEN Raise(S, <<>>, "RuntimeException")
    ELSE
    LET S1 == IF S.store[o.target] = NoTask
              THEN runtime_store_task(S, o.target, new_task) ELSE S
        target == S1.store[o.target]
    IN  IF target.status = "FINISHED" THEN Raise(S1, <<>>, "AttributeError")
        ELSE IF target.status = "DEAD"
        THEN Out(S1, WithdrawOp("Cancel", o.tid, NoStage), <<>>, <<>>)
        ELSE Raise(S1, <<>>, "TypeError")

\* YieldToOperator._run_operation without the `if parent_id is None` arm.
YieldToRunNoParentTest(S, o) ==
    IF runtime_fetch_task(S, o.tid) = NoTask
    THEN Raise(S, <<>>, "RuntimeException")
    ELSE
    LET task == S.store[o.tid]
        tasked == to_tasked(o.tid, task, o.stage)
    IN  IF o.flag
        THEN Out(runtime_store_task(S, o.tid, [task EXCEPT !.status = "DEAD"]),
                 ScheduleOp, <<>>, <<[to |-> "parent", tasked |-> tasked]>>)
        ELSE Out(runtime_store_task(S, o.tid,
                                    [task EXCEPT !.status = "YIELDING"]),
                 ScheduleOp, <<>>, <<[to |-> "self", tasked |-> tasked]>>)

\* YieldToOperator._run_operation and _fallback
YieldToRun(S, o) ==
    IF runtime_fetch_task(S, o.tid) = NoTask
    THEN Raise(S, <<>>, "RuntimeException")
    ELSE
    LET task == S.store[o.tid]
        tasked == to_tasked(o.tid, task, o.stage)
    IN  IF o.flag /\ ~S.process.parent
        THEN Out(S, ForwardOp(o.tid, <<o.stage>>), <<>>, <<>>)
        ELSE IF o.flag
        THEN Out(runtime_store_task(S, o.tid, [task EXCEPT !.status = "DEAD"]),
                 ScheduleOp, <<>>, <<[to |-> "parent", tasked |-> tasked]>>)
        ELSE Out(runtime_store_task(S, o.tid,
                                    [task EXCEPT !.status = "YIELDING"]),
                 ScheduleOp, <<>>, <<[to |-> "self", tasked |-> tasked]>>)

\* IntendingOperator.run: _run_operation and _fallback.  A missing task at
\* an inner stage, a missing or unnamed reaction and a match without target
\* fall back to UnhandledInput; a missing task at the entry stage reaches
\* target.copy_with, which URL does not define; an existing task has the
\* named reaction of the target stage invoked, answering h.
Intending_run(S, o, h) ==
    LET task == runtime_fetch_task(S, o.target) IN
    IF o.target = NoTid THEN Out(S, UnhandledInputOp, <<>>, <<>>)
    ELSE IF task = NoTask /\ o.stage # "" THEN Out(S, UnhandledInputOp, <<>>, <<>>)
    ELSE IF task = NoTask THEN Raise(S, <<>>, "AttributeError")
    ELSE IF o.reaction \notin StageReactions(o.stage)
    THEN Out(S, UnhandledInputOp, <<>>, <<>>)
    ELSE Out(S, IF h = NoneOp THEN UnhandledInputOp ELSE h,
             <<Ev("react", o.target, o.stage, task.status, VarsNone, h)>>,
             <<>>)

\* IntendingOperator run by run_dominos: op.run(ctx), then op.destroy(),
\* whose `del self.fr` names an attribute the object never had; the
\* operator run() answered is lost with the error.
IntendingRun(S, o, h) ==
    Raise(S, Intending_run(S, o, h).fired, "AttributeError")

\* TaskedMessageOperator._run_operation: URL(think=...) omits the required
\* field `resolver`.
TaskedMessageRun(S) == Raise(S, <<>>, "ValidationError")

\* ReceiveInputOperator._check_payload_tid
check_payload_tid(S, tid) ==
    IF tid = NoTid \/ runtime_fetch_task(S, tid) = NoTask THEN S
    ELSE IF S.store[tid].status # "WAITING" THEN S
    ELSE runtime_store_process(S, process_await_at(S, tid))

\* An Input: `url` says whether it names a target URL, `tid` is its payload
\* tid, `tasked` the id of the task of its Tasked payload's resolver and
\* args (NoTid without such a payload), `stage` and `status` the stage and
\* status of that snapshot.
NoInput == [url |-> FALSE, tasked |-> NoTid, tid |-> NoTid,
            stage |-> "", status |-> "RUNNING"]
Inputs ==
    {[NoInput EXCEPT !.url = u, !.tasked = k, !.tid = t] :
        u \in BOOLEAN, k \in {NoTid, "2"}, t \in Tids \cup {NoTid}}

\* The Tasked message a round may start from (TaskedMessageOperator(tasked)).
TaskedInputs ==
    {[NoInput EXCEPT !.tasked = "2", !.stage = st, !.status = s] :
        st \in Stages, s \in {"DEAD", "WAITING", "FINISHED", "RUNNING"}}

\* ReceiveInputOperator._intercept, `if not process.root`: the root is made
\* from input.url.copy_with(), which URL does not define, or is a new task
\* of the Tasked payload's resolver or of clone.root; the task is stored
\* and process.root is not assigned.
ensure_root(S, inp) ==
    IF S.process.root # NoTid THEN Out(S, NoneOp, <<>>, <<>>)
    ELSE IF inp.url THEN Raise(S, <<>>, "AttributeError")
    ELSE Out(runtime_store_task(S, IF inp.tasked # NoTid THEN inp.tasked
                                   ELSE RootTid, new_task),
             NoneOp, <<>>, <<>>)

\* ReceiveInputOperator._run_operation: after the payload check, the fetch
\* of the awaiting task and context_attentions it calls
\* CtxTool.match_attentions, which CtxTool does not define.
ReceiveInput_run_operation(S, inp) ==
    LET S1 == check_payload_tid(S, inp.tid) IN
    IF runtime_fetch_task(S1, S1.process.awaiting) = NoTask
    THEN Raise(S1, <<>>, "RuntimeException")
    ELSE Raise(S1, <<>>, "AttributeError")

\* ReceiveInputOperator: _intercept, then _run_operation and _fallback
ReceiveInputRun(S, inp) ==
    LET r == ensure_root(S, inp)
        S1 == r.S
        S2 == runtime_store_process(S1, [S1.process EXCEPT !.is_new = FALSE])
        root == S2.process.root
    IN  IF r.error # "none" THEN r
        ELSE IF inp.tasked # NoTid THEN Out(S1, TaskedMessageOp, <<>>, <<>>)
        ELSE IF S1.process.is_new
        THEN IF runtime_fetch_task(S2, root) = NoTask
             THEN Raise(S2, <<>>, "RuntimeException")
             ELSE Out(S2, ChainOp(<<ActivateOp(root, S2.store[root].stage, root),
                                   ReceiveInputOp>>), <<>>, <<>>)
        ELSE ReceiveInput_run_operation(S1, inp)

\* ---- one round of run_dominos over the process ----

\* run_dominos, one iteration: `after = op.run(ctx)`, `op = after`; an
\* exception leaves the loop.  The loop has no bound of its own: the
\* result of is_stackoverflow is not looked at.  `count` stops at MaxOps.
Iterate(r) ==
    /\ store' = r.S.store
    /\ process' = r.S.process
    /\ op' = r.next
    /\ count' = IF count < MaxOps THEN count + 1 ELSE count
    /\ ran' = op
    /\ was' = runtime_fetch_task(Cur, OpTid(op))
    /\ fired' = r.fired
    /\ error' = r.error
    /\ sent' = r.sent
    /\ UNCHANGED input
    /\ UNCHANGED <<dvars, cvars, xvars>>

\* One of the first MaxOps iterations of a round.
Step(r) == count < MaxOps /\ Iterate(r)

\* The task whose stage handler an event reaches.
Handlers(tid) == IF tid \in Tids THEN HandlerOps(Cur, tid) ELSE {NoneOp}

\* ChainOperator.run, after the head of the chain has run with outcome r
ChainSplice(r, rest) ==
    IF r.error # "none" THEN r
    ELSE [r EXCEPT !.next = IF r.next = NoneOp THEN ChainOp(rest)
                            ELSE IF rest = <<>> THEN r.next
                            ELSE ChainOp(<<r.next>> \o rest)]

\* Operator.run: the outcomes of running operator o on the stored state,
\* one for each answer the stage handlers it reaches may give.
RECURSIVE OperatorRuns(_)
OperatorRuns(o) ==
    CASE o.kind = "ReceiveInput" -> {ReceiveInputRun(Cur, input)}
      [] o.kind = "Intending" ->
            {IntendingRun(Cur, o, h) : h \in Handlers(o.target)}
      [] o.kind = "TaskedMessage" -> {TaskedMessageRun(Cur)}
      [] o.kind = "UnhandledInput" ->
            {UnhandledInputRun(Cur, h1, h2) :
                h1 \in Handlers(process.awaiting),
                h2 \in Handlers(process.root)}
      [] o.kind = "Activate" ->
            {ActivateRun(Cur, o, h) : h \in Handlers(OpTid(o))}
      [] o.kind = "Rewind" -> {RewindRun(Cur, o)}
      [] o.kind = "Await" -> {AwaitRun(Cur, o)}
      [] o.kind = "Forward" -> {ForwardRun(Cur, o)}
      [] o.kind = "Finish" -> {FinishRun(Cur, o)}
      [] o.kind \in WithdrawKinds ->
            {WithdrawRun(Cur, o, h) : h \in Handlers(o.tid)}
      [] o.kind = "Schedule" ->
            {ScheduleRun(Cur, h) : h \in Handlers(process_fallback(Cur))}
      [] o.kind = "Reset" -> {ResetRun(Cur, h) : h \in Handlers(process.root)}
      [] o.kind = "Restart" -> {RestartRun(Cur, o)}
      [] o.kind = "DependOn" -> {DependOnRun(Cur, o)}
      [] o.kind = "YieldTo" -> {YieldToRun(Cur, o)}
      [] o.kind = "Chain" ->
            IF o.chain = <<>> THEN {Out(Cur, NoneOp, <<>>, <<>>)}
            ELSE {ChainSplice(r, Tail(o.chain)) :
                     r \in OperatorRuns(Head(o.chain))}
      [] OTHER -> {}

ReceiveInput == op.kind = "ReceiveInput" /\ \E r \in OperatorRuns(op) : Step(r)

Intending == op.kind = "Intending" /\ \E r \in OperatorRuns(op) : Step(r)

TaskedMessage == op.kind = "TaskedMessage" /\ \E r \in OperatorRuns(op) : Step(r)

UnhandledInput == op.kind = "UnhandledInput" /\ \E r \in OperatorRuns(op) : Step(r)

Activate == op.kind = "Activate" /\ \E r \in OperatorRuns(op) : Step(r)

Rewind == op.kind = "Rewind" /\ \E r \in OperatorRuns(op) : Step(r)

Await == op.kind = "Await" /\ \E r \in OperatorRuns(op) : Step(r)

Forward == op.kind = "Forward" /\ \E r \in OperatorRuns(op) : Step(r)

Finish == op.kind = "Finish" /\ \E r \in OperatorRuns(op) : Step(r)

Withdraw == op.kind \in WithdrawKinds /\ \E r \in OperatorRuns(op) : Step(r)

Schedule == op.kind = "Schedule" /\ \E r \in OperatorRuns(op) : Step(r)

Reset == op.kind = "Reset" /\ \E r \in OperatorRuns(op) : Step(r)

Restart == op.kind = "Restart" /\ \E r \in OperatorRuns(op) : Step(r)

DependOn == op.kind = "DependOn" /\ \E r \in OperatorRuns(op) : Step(r)

YieldTo == op.kind = "YieldTo" /\ \E r \in OperatorRuns(op) : Step(r)

\* Schedule and the withdrawals, at any iteration of the round.
ScheduleAgain == op.kind = "Schedule" /\ \E r \in OperatorRuns(op) : Iterate(r)

WithdrawAgain ==
    op.kind \in WithdrawKinds /\ \E r \in OperatorRuns(op) : Iterate(r)

\* ChainOperator.run
ChainRun == op.kind = "Chain" /\ \E r \in OperatorRuns(op) : Step(r)

\* ---- the persisted process a round starts from ----

\* The tids of a set, in ascending order.
SeqOf(s) ==
    SelectSeq([i \in 1..MaxTasks |-> ToString(i)], LAMBDA t : t \in s)

InitStatuses == {"WAITING", "DEPENDING", "CANCELING", "FAILING", "FINISHED",
                 "DEAD"}

\* A stored task of the family: its listeners are filled in by
\* ProcessInit; a DEPENDING task is parked at the stage it depended at
\* (Task.depend(stage)); a WAITING task attends to the reactions of its
\* stage.
InitTask(status) ==
    [status |-> status, stage |-> IF status = "DEPENDING" THEN "s" ELSE "",
     pending |-> <<>>, callbacks |-> {}, vars |-> "a",
     attentions |-> IF status = "WAITING" THEN StageReactions("") ELSE {}]

\* The matches an Intending may be built from: none with a target, or the
\* task of one resolver at either stage, naming no reaction, a reaction the
\* entry stage declares, or one no stage declares.
MatchedOps ==
    {IntendingOp(NoTid, "", "None")}
        \cup {IntendingOp("2", st, re) : st \in Stages, re \in {"None", "a", "z"}}

\* run_dominos(ctx, initial): the operators a round may start with, on the
\* awaiting task and on the root.
InitialOps(S) ==
    ({ReceiveInputOp, UnhandledInputOp, TaskedMessageOp, ScheduleOp}
        \cup MatchedOps
        \cup HandlerOps(S, S.process.awaiting)
        \cup HandlerOps(S, S.process.root)) \ {NoneOp}

\* The states a process is persisted in after a completed round, as the
\* next round starts: the root exists and waits, the awaiting task exists
\* and waits, every DEPENDING task listens to the root, a task that has
\* finished or died since it registered is still among the listeners, and
\* each status list holds exactly the tasks of its status.
ProcessInit ==
    \E present \in SUBSET (Tids \ {RootTid}),
       st \in [Tids -> InitStatuses],
       aw \in Tids, q \in BOOLEAN, par \in BOOLEAN :
       LET here == present \cup {RootTid}
           listeners == {t \in here :
                           st[t] \in {"DEPENDING", "FINISHED", "DEAD"}}
           of(s) == {t \in here \ {aw} : st[t] \in s}
       IN  /\ st[RootTid] = "WAITING"
           /\ \A t \in Tids \ here : st[t] = "WAITING"
           /\ aw \in here
           /\ st[aw] = "WAITING"
           /\ store = [t \in Tids |->
                         IF t \notin here THEN NoTask
                         ELSE [InitTask(st[t]) EXCEPT !.callbacks =
                                  IF t = RootTid THEN listeners ELSE {}]]
           /\ process = [root |-> RootTid, awaiting |-> aw,
                         blocking |-> <<>>,
                         waiting |-> SeqOf(of({"WAITING"}) \ {RootTid}),
                         canceling |-> SeqOf(of({"CANCELING"})),
                         failing |-> SeqOf(of({"FAILING"})),
                         quiting |-> q, parent |-> par, is_new |-> FALSE]
           /\ op \in InitialOps(Cur)
           /\ input \in (IF op = ReceiveInputOp THEN Inputs
                         ELSE IF op = TaskedMessageOp THEN TaskedInputs
                         ELSE {NoInput})
           /\ count = 0
           /\ ran = NoneOp /\ was = NoTask
           /\ fired = <<>> /\ error = "none" /\ sent = <<>>

\* A process that answers its first input: is_new is set; it has no task,
\* or its root alone, not yet activated.
NewProcessInit ==
    \E rooted \in BOOLEAN, par \in BOOLEAN :
       /\ store = [t \in Tids |->
                     IF rooted /\ t = RootTid THEN NewTask ELSE NoTask]
       /\ process = [root |-> IF rooted THEN RootTid ELSE NoTid,
                     awaiting |-> IF rooted THEN RootTid ELSE NoTid,
                     blocking |-> <<>>, waiting |-> <<>>,
                     canceling |-> <<>>, failing |-> <<>>,
                     quiting |-> FALSE, parent |-> par, is_new |-> TRUE]
       /\ op = ReceiveInputOp
       /\ input \in Inputs
       /\ count = 0
       /\ ran = NoneOp /\ was = NoTask
       /\ fired = <<>> /\ error = "none" /\ sent = <<>>

\* A process whose canceling and failing lists hold nothing but ids of
\* tasks that are not stored, as Schedule is about to run.
OrphanInit ==
    \E present \in SUBSET (Tids \ {RootTid}),
       st \in [Tids -> InitStatuses \ {"CANCELING", "FAILING"}],
       aw \in Tids, q \in BOOLEAN, par \in BOOLEAN,
       co \in SUBSET Tids, fo \in SUBSET Tids :
       LET here == present \cup {RootTid}
           of(s) == {t \in here \ {aw} : st[t] \in s}
       IN  /\ st[RootTid] = "WAITING"
           /\ \A t \in Tids \ here : st[t] = "WAITING"
           /\ aw \in here
           /\ st[aw] = "WAITING"
           /\ co \cap here = {} /\ fo \cap here = {} /\ co \cap fo = {}
           /\ co \cup fo # {}
           /\ store = [t \in Tids |->
                         IF t \notin here THEN NoTask ELSE InitTask(st[t])]
           /\ process = [root |-> RootTid, awaiting |-> aw,
                         blocking |-> <<>>,
                         waiting |-> SeqOf(of({"WAITING"}) \ {RootTid}),
                         canceling |-> SeqOf(co), failing |-> SeqOf(fo),
                         quiting |-> q, parent |-> par, is_new |-> FALSE]
           /\ op = ScheduleOp
           /\ input = NoInput
           /\ count = 0
           /\ ran = NoneOp /\ was = NoTask
           /\ fired = <<>> /\ error = "none" /\ sent = <<>>

(***************************************************************************)
(* Part III.  CtxTool.context_attentions as a function of the process.     *)
(***************************************************************************)

MaxAttentions == 2   \* longest Task.attentions list
MaxWaiting == 2      \* longest Process.waiting list
MaxBlocking == 2     \* longest Process.blocking list

Levels == {"PRIVATE", "PROTECTED", "PUBLIC"}
Urls == {"x", "y", "z"}

\* Stage.intentions(ctx) of the stage a URL names: the kinds it declares.
StageIntentions(url) ==
    CASE url = "x" -> <<"command">>
      [] url = "y" -> <<"command", "text">>
      [] OTHER -> <<>>

Kinds == {"command", "text"}

EmptyResult == [k \in Kinds |-> <<>>]

\* The inner loops of _add_task_intentions for one URL: every intention of
\* the URL's stage is tagged with the URL and appended under its kind.  The
\* field `of` records the task whose list the URL came from.
RECURSIVE AddIntentions(_, _, _, _)
AddIntentions(result, tid, url, metas) ==
    IF metas = <<>> THEN result
    ELSE AddIntentions(
            [result EXCEPT ![Head(metas)] =
                Append(@, [kind |-> Head(metas), url |-> url, of |-> tid])],
            tid, url, Tail(metas))

\* CtxTool._add_task_intentions with attentions=True
RECURSIVE AddUrls(_, _, _)
AddUrls(result, tid, url_list) ==
    IF url_list = <<>> THEN result
    ELSE AddUrls(AddIntentions(result, tid, Head(url_list),
                               StageIntentions(Head(url_list))),
                 tid, Tail(url_list))

\* CtxTool._add_task_intentions
add_task_intentions(result, tid) ==
    IF c_attentions[tid] = <<>> THEN result
    ELSE AddUrls(result, tid, c_attentions[tid])

\* context_attentions, the loop over process.waiting
RECURSIVE AddWaiting(_, _)
AddWaiting(result, waiting) ==
    IF waiting = <<>> THEN result
    ELSE AddWaiting(add_task_intentions(result, Head(waiting)), Tail(waiting))

\* context_attentions with the PRIVATE test lost.
context_attentions_unscoped ==
    LET r1 == add_task_intentions(EmptyResult, c_root)
        r2 == IF c_awaiting # c_root THEN add_task_intentions(r1, c_awaiting)
              ELSE r1
    IN  AddWaiting(r2, c_waiting)

\* CtxTool.context_attentions
context_attentions ==
    LET r1 == add_task_intentions(EmptyResult, c_root)
        r2 == IF c_awaiting # c_root THEN add_task_intentions(r1, c_awaiting)
              ELSE r1
    IN  IF c_level[c_awaiting] = "PRIVATE" THEN r2
        ELSE AddWaiting(r2, c_waiting)

CTids == {"1", "2", "3"}

\* A process with its root, an awaiting task of some level and waiting
\* tasks, none of the waiting ones being the root or the awaiting task;
\* every task declares a list of attention URLs.
ContextInit ==
    /\ c_root = RootTid
    /\ c_awaiting \in {"1", "2"}
    /\ c_waiting \in DistinctSeqs(CTids \ {c_root, c_awaiting}, MaxWaiting)
    /\ c_level \in [CTids -> Levels]
    /\ \A t \in CTids \ {c_awaiting} : c_level[t] = "PUBLIC"
    /\ c_attentions \in [CTids -> DistinctSeqs(Urls, MaxAttentions)]
    /\ c_result = EmptyResult
    /\ c_pc = "idle"
    /\ c_blocking = <<>> /\ c_url = [t \in CTids |-> "x"]

\* CtxTool._add_task_intentions with attentions=False: the task's own URL
\* stands for the list, after the same test of task.attentions.
add_task_own_intentions(result, tid) ==
    IF c_attentions[tid] = <<>> THEN result
    ELSE AddUrls(result, tid, <<c_url[tid]>>)

\* context_intentions, the loops over process.blocking and process.waiting
RECURSIVE AddOwn(_, _)
AddOwn(result, tids) ==
    IF tids = <<>> THEN result
    ELSE AddOwn(add_task_own_intentions(result, Head(tids)), Tail(tids))

\* CtxTool.context_intentions.  The task it names awaiting_task is the one
\* fetch_root_task answers, and the level it stops at is PROTECTED.
context_intentions ==
    LET r1 == add_task_own_intentions(EmptyResult, c_root)
        r2 == AddOwn(AddOwn(r1, c_blocking), c_waiting)
    IN  IF c_level[c_root] = "PROTECTED" THEN r1
        ELSE IF c_awaiting # c_root
        THEN add_task_own_intentions(r2, c_root)
        ELSE r2

\* A process with its root, an awaiting task, blocking and waiting tasks
\* (none of them the root or the awaiting task, no task in both lists);
\* the root and the awaiting task have any level, every task has its own
\* URL and has attentions set or not.
IntentionsInit ==
    /\ c_root = RootTid
    /\ c_awaiting \in {"1", "2"}
    /\ c_blocking \in DistinctSeqs(CTids \ {c_root, c_awaiting}, MaxBlocking)
    /\ c_waiting \in DistinctSeqs(CTids \ {c_root, c_awaiting}, MaxWaiting)
    /\ \A i \in 1..Len(c_blocking) :
          \A j \in 1..Len(c_waiting) : c_blocking[i] # c_waiting[j]
    /\ c_level \in [CTids -> Levels]
    /\ \A t \in CTids \ {c_root, c_awaiting} : c_level[t] = "PUBLIC"
    /\ c_attentions \in [CTids -> {<<>>, <<"z">>}]
    /\ c_url \in [CTids -> Urls]
    /\ c_result = EmptyResult
    /\ c_pc = "idle"

ContextIdle ==
    /\ c_root = RootTid /\ c_awaiting = RootTid /\ c_waiting = <<>>
    /\ c_level = [t \in CTids |-> "PUBLIC"]
    /\ c_attentions = [t \in CTids |-> <<>>]
    /\ c_result = EmptyResult /\ c_pc = "idle"
    /\ c_blocking = <<>> /\ c_url = [t \in CTids |-> "x"]

ContextAttentions ==
    /\ c_pc = "idle"
    /\ c_result' = context_attentions
    /\ c_pc' = "done"
    /\ UNCHANGED <<c_root, c_awaiting, c_waiting, c_level, c_attentions,
                   c_blocking, c_url>>
    /\ UNCHANGED <<dvars, pvars, xvars>>

ContextIntentions ==
    /\ c_pc = "idle"
    /\ c_result' = context_intentions
    /\ c_pc' = "intentions"
    /\ UNCHANGED <<c_root, c_awaiting, c_waiting, c_level, c_attentions,
                   c_blocking, c_url>>
    /\ UNCHANGED <<dvars, pvars, xvars>>

(***************************************************************************)
(* Part IV.  AbsOperator.run, the intercept / operate / fallback template. *)
(***************************************************************************)

Hooks == {"_intercept", "_run_operation", "_fallback"}

\* A hook answers an operator or None, or it raises.
HookRaises == MkOp("raises")
HookResults == {NoneOp, ScheduleOp, ResetOp, RewindOp(TRUE), HookRaises}

\* An operator of the template about to run: its hooks answer anything.
TemplateInit ==
    /\ a_hooks \in [Hooks -> HookResults]
    /\ a_pc = "run" /\ a_calls = <<>> /\ a_ret = NoneOp

TemplateIdle ==
    /\ a_hooks = [h \in Hooks |-> NoneOp]
    /\ a_pc = "idle" /\ a_calls = <<>> /\ a_ret = NoneOp

\* The call of one hook, and what AbsOperator.run does with the answer:
\* `return` it when it is an operator, go on to `otherwise` when it is None.
CallHook(hook, otherwise) ==
    LET r == a_hooks[hook] IN
    /\ a_calls' = Append(a_calls, hook)
    /\ IF r = HookRaises THEN a_pc' = "raised" /\ a_ret' = a_ret
       ELSE IF r # NoneOp THEN a_pc' = "returned" /\ a_ret' = r
       ELSE a_pc' = otherwise /\ a_ret' = a_ret
    /\ UNCHANGED a_hooks
    /\ UNCHANGED <<dvars, pvars, cvars, mvars, uvars, fvars, svars, evars>>

\* AbsOperator.run: `interceptor = self._intercept(ctx)` and its test
AbsOperator_intercept == a_pc = "run" /\ CallHook("_intercept", "operate")

\* AbsOperator.run with `if result_op is not None: return result_op` lost.
AbsOperator_run_operation_falls_through ==
    /\ a_pc = "operate"
    /\ a_calls' = Append(a_calls, "_run_operation")
    /\ a_pc' = IF a_hooks["_run_operation"] = HookRaises THEN "raised"
               ELSE "fallback"
    /\ UNCHANGED <<a_hooks, a_ret>>
    /\ UNCHANGED <<dvars, pvars, cvars, mvars, uvars, fvars, svars, evars>>

\* AbsOperator.run: `result_op = self._run_operation(ctx)` and its test
AbsOperator_run_operation ==
    a_pc = "operate" /\ CallHook("_run_operation", "fallback")

\* AbsOperator.run: `return self._fallback(ctx)`
AbsOperator_fallback ==
    /\ a_pc = "fallback"
    /\ a_calls' = Append(a_calls, "_fallback")
    /\ IF a_hooks["_fallback"] = HookRaises
       THEN a_pc' = "raised" /\ a_ret' = a_ret
       ELSE a_pc' = "returned" /\ a_ret' = a_hooks["_fallback"]
    /\ UNCHANGED a_hooks
    /\ UNCHANGED <<dvars, pvars, cvars, mvars, uvars, fvars, svars, evars>>

(***************************************************************************)
(* Part V.  FocusOnCommandHandler (ghost_fmk/intentions/command.py).       *)
(*                                                                         *)
(* A text is a sequence of atoms: the prefix "/", a space " ", or a word   *)
(* (a run of characters other than the space).  The texts of the model     *)
(* never hold two words side by side, so every piece a split cuts out is   *)
(* empty or a single word.                                                 *)
(***************************************************************************)

MaxTokens == 2     \* most words after the command name

Prefix == "/"
Space == " "
Names == {"set", "help", "nope"}    \* "nope" is registered nowhere
Tokens == {"foo", "v", "-o", "--opt"}
OptionStrings == {"-o", "--opt"}    \* `-<first of short>`, `--<name>`
NoValue == "None"                   \* an argument left unbound
Absent == "absent"                  \* an argument the command lacks

\* str.split(' ', maxsplit)
RECURSIVE split(_, _)
split(str, maxsplit) ==
    IF maxsplit = 0 \/ \A i \in 1..Len(str) : str[i] # Space THEN <<str>>
    ELSE LET i == CHOOSE j \in 1..Len(str) :
                     str[j] = Space /\ \A k \in 1..(j - 1) : str[k] # Space
         IN  <<SubSeq(str, 1, i - 1)>>
                \o split(SubSeq(str, i + 1, Len(str)), maxsplit - 1)

\* str.strip()
RECURSIVE strip(_)
strip(str) ==
    IF str = <<>> THEN str
    ELSE IF Head(str) = Space THEN strip(Tail(str))
    ELSE IF str[Len(str)] = Space THEN strip(SubSeq(str, 1, Len(str) - 1))
    ELSE str

\* argparse, for a parser with at most one positional `key` and one option
\* `-o/--opt` (both with nargs None), reading args from the left into the
\* namespace ns: an option takes the word that follows it and raises
\* ArgumentError without one; an unknown option and a surplus word go to
\* the extras of parse_known_args.
RECURSIVE consume_args(_, _, _)
consume_args(config, args, ns) ==
    IF args = <<>> THEN ns
    ELSE IF config.opt /\ Head(args) \in OptionStrings
    THEN IF Len(args) >= 2 /\ args[2] \notin OptionStrings
         THEN consume_args(config, Tail(Tail(args)),
                           [ns EXCEPT !.opt = args[2]])
         ELSE [ns EXCEPT !.raised = "ArgumentError"]
    ELSE IF Head(args) \notin OptionStrings /\ config.arg
            /\ ns.key = NoValue
    THEN consume_args(config, Tail(args), [ns EXCEPT !.key = Head(args)])
    ELSE consume_args(config, Tail(args), ns)

\* _ArgumentParserWrapper.parse_known_args: error() records a missing
\* required positional in error_occur and returns; exit_on_error=False lets
\* an ArgumentError leave the parser.
parse_known_args(config, args) ==
    LET ns == consume_args(config, args,
                           [key |-> NoValue, opt |-> NoValue,
                            raised |-> "none"])
    IN  [raised |-> ns.raised,
         error_occur |-> ns.raised = "none" /\ config.arg /\ ns.key = NoValue,
         params |-> [key |-> IF config.arg THEN ns.key ELSE Absent,
                     opt |-> IF config.opt THEN ns.opt ELSE Absent]]

NoParams == [key |-> Absent, opt |-> Absent]

\* What match_raw_text returns (kind "none": None; "match": the matched
\* CommandIntention with its params) or raises; `args` is the list that
\* _parse_command handed to parse_known_args.
Outcome(kind, name, err, params, args) ==
    [kind |-> kind, name |-> name, error |-> err, params |-> params,
     args |-> args]

NoMatch == Outcome("none", "", FALSE, NoParams, <<>>)

\* FocusOnCommandHandler._parse_command
parse_command(command, arguments) ==
    LET pieces == SelectSeq(split(arguments, Len(arguments)),
                            LAMBDA piece : piece # <<>>)
        args == [i \in 1..Len(pieces) |-> pieces[i][1]]
        parsed == parse_known_args(command, args)
    IN  IF parsed.raised # "none"
        THEN Outcome(parsed.raised, command.name, FALSE, NoParams, args)
        ELSE IF parsed.error_occur
        THEN Outcome("InvalidInput", command.name, TRUE, NoParams, args)
        ELSE Outcome("match", command.name, FALSE, parsed.params, args)

\* match_raw_text: the `commands` map, first registration of a name wins
Commands(metas, name) ==
    LET named == SelectSeq(metas, LAMBDA meta : <<meta.name>> = name)
    IN  IF named = <<>> THEN <<>> ELSE <<Head(named)>>

\* FocusOnCommandHandler.match_raw_text
match_raw_text(text, metas) ==
    IF text[1] # Prefix THEN NoMatch
    ELSE
    LET command_line == Tail(text)
        seps == split(command_line, 2)
        command_name == seps[1]
        arguments == IF Len(seps) < 2 THEN <<>> ELSE strip(seps[2])
    IN  IF Commands(metas, command_name) = <<>> THEN NoMatch
        ELSE parse_command(Commands(metas, command_name)[1], arguments)

\* A command of the configuration: `arg` a required positional named key,
\* `opt` an option named opt with short "o".
Command(name, arg, opt) == [name |-> name, arg |-> arg, opt |-> opt]

RECURSIVE Spaced(_, _)
\* The words toks, each after gaps[i] spaces.
Spaced(toks, gaps) ==
    IF toks = <<>> THEN <<>>
    ELSE [i \in 1..gaps[1] |-> Space] \o <<Head(toks)>>
            \o Spaced(Tail(toks), Tail(gaps))

\* FocusOnCommandHandler.match hands over a non-empty text and the
\* candidates: "set" in some configuration, "help" without arguments and
\* a later registration of "set" in the opposite configuration.
CommandInit ==
    \E lead \in {Prefix, "set"}, name \in Names, n \in 0..MaxTokens,
       trail \in 0..1, arg \in BOOLEAN, opt \in BOOLEAN :
       \E toks \in [1..n -> Tokens], gaps \in [1..n -> 1..2] :
          /\ m_text = <<lead, name>> \o Spaced(toks, gaps)
                        \o [i \in 1..trail |-> Space]
          /\ m_metas = <<Command("set", arg, opt),
                         Command("help", FALSE, FALSE),
                         Command("set", ~arg, ~opt)>>
          /\ m_pc = "call" /\ m_out = NoMatch

CommandIdle ==
    m_text = <<>> /\ m_metas = <<>> /\ m_pc = "idle" /\ m_out = NoMatch

MatchRawText ==
    /\ m_pc = "call"
    /\ m_out' = match_raw_text(m_text, m_metas)
    /\ m_pc' = "done"
    /\ UNCHANGED <<m_text, m_metas>>
    /\ UNCHANGED <<dvars, pvars, cvars, avars, uvars, fvars, svars, evars>>

(***************************************************************************)
(* Part VI.  UniformResolverLocator (ghost/url.py): to_stage, new_args.    *)
(*                                                                         *)
(* Dicts are objects on a heap and a URL holds the address of its args.    *)
(* dict.copy() allocates a new dict with the same entries.  The model      *)
(* constructor (pydantic) either keeps the dict it is given or stores a    *)
(* copy of it; both are allowed.                                           *)
(***************************************************************************)

MaxWrites == 2     \* writes to args maps after the copy

Addrs == {"src", "arg", "c1", "c2"}
Keys == {"k", "j"}
Missing == "missing"                \* no entry under the key
Values == {Missing, "1", "2"}
InitDicts == [Keys -> {Missing, "1"}]   \* the dicts a run starts with
Free == "free"
NoUrl == [resolver |-> "", stage |-> "", args |-> "none"]
NoCall == [method |-> "none", stage |-> "", args |-> "none"]

\* UniformResolverLocator(resolver=..., stage=..., args=given): the URL and
\* the heap after the constructor ran on the dict at `given`.
NewUrl(heap, resolver, stage, given, keeps) ==
    IF keeps
    THEN [url |-> [resolver |-> resolver, stage |-> stage, args |-> given],
          heap |-> heap]
    ELSE [url |-> [resolver |-> resolver, stage |-> stage, args |-> "c2"],
          heap |-> [heap EXCEPT !["c2"] = heap[given]]]

\* to_stage with `args=self.args` in place of `args=self.args.copy()`.
to_stage_shares_args(heap, self, stage, keeps) ==
    NewUrl(heap, self.resolver, stage, self.args, keeps)

\* UniformResolverLocator.to_stage
to_stage(heap, self, stage, keeps) ==
    NewUrl([heap EXCEPT !["c1"] = heap[self.args]],
           self.resolver, stage, "c1", keeps)

\* UniformResolverLocator.new_args
new_args(heap, self, args, keeps) ==
    NewUrl([heap EXCEPT !["c1"] = heap[args]],
           self.resolver, self.stage, "c1", keeps)

\* A URL with some args, and a dict a caller may pass to new_args.
UrlInit ==
    /\ u_src \in [resolver : {"a", "b"}, stage : {"", "x"}, args : {"src"}]
    /\ \E d \in InitDicts, e \in InitDicts :
          u_heap = [a \in Addrs |-> CASE a = "src" -> d [] a = "arg" -> e
                                      [] OTHER -> Free]
    /\ u_copy = NoUrl /\ u_call = NoCall
    /\ u_orig = [heap |-> u_heap, src |-> u_src, before |-> u_heap]
    /\ u_via = {} /\ u_writes = 0 /\ u_pc = "ready"

UrlIdle ==
    /\ u_src = NoUrl /\ u_heap = [a \in Addrs |-> Free]
    /\ u_copy = NoUrl /\ u_call = NoCall
    /\ u_orig = [heap |-> u_heap, src |-> u_src, before |-> u_heap]
    /\ u_via = {} /\ u_writes = 0 /\ u_pc = "idle"

\* The state after a call that returned r.
Returned(r, call) ==
    /\ u_heap' = r.heap
    /\ u_copy' = r.url
    /\ u_call' = call
    /\ u_orig' = [heap |-> r.heap, src |-> u_src, before |-> u_heap]
    /\ u_pc' = "copied"
    /\ UNCHANGED <<u_src, u_via, u_writes>>
    /\ UNCHANGED <<dvars, pvars, cvars, avars, mvars, fvars, svars, evars>>

ToStage ==
    /\ u_pc = "ready"
    /\ \E stage \in {"", "x"}, keeps \in BOOLEAN :
          Returned(to_stage(u_heap, u_src, stage, keeps),
                   [method |-> "to_stage", stage |-> stage, args |-> "none"])

NewArgs ==
    /\ u_pc = "ready"
    /\ \E keeps \in BOOLEAN :
          Returned(new_args(u_heap, u_src, "arg", keeps),
                   [method |-> "new_args", stage |-> "", args |-> "arg"])

\* The address behind a handle: the source URL's args, the copy's args, or
\* the dict that was passed to new_args.
Handle(via) ==
    CASE via = "source" -> u_src.args
      [] via = "copy" -> u_copy.args
      [] OTHER -> "arg"

\* A later `x.args[key] = value` or `del x.args[key]` through a handle.
WriteArgs ==
    /\ u_pc = "copied" /\ u_writes < MaxWrites
    /\ \E via \in {"source", "copy", "passed"}, key \in Keys,
          value \in Values :
          /\ via = "passed" => u_call.method = "new_args"
          /\ u_heap' = [u_heap EXCEPT ![Handle(via)][key] = value]
          /\ u_via' = u_via \cup {via}
    /\ u_writes' = u_writes + 1
    /\ UNCHANGED <<u_src, u_copy, u_call, u_orig, u_pc>>
    /\ UNCHANGED <<dvars, pvars, cvars, avars, mvars, fvars, svars, evars>>

(***************************************************************************)
(* Part VII.  AgentStage.llm_funcs (llms/thinks/agent.py).                 *)
(***************************************************************************)

MaxSources == 2    \* longest llm_funcs / methods_as_funcs list
MaxAliases == 1    \* longest stages_as_func / thinks_as_func list

FuncNames == {"op_finish", "go"}
\* Attributes of the stage: op_finish is an LLMFunc (llm_func_decorator),
\* url is a plain method, nope does not exist.
MethodNames == {"op_finish", "url", "nope"}
\* A "name" or "name:alias" entry of stages_as_func / thinks_as_func.
Aliased == [target : {"t"}, alias : {"", "op_finish", "go"}]

SeqsUpTo(S, n) == UNION {[1..k -> S] : k \in 0..n}

Func(name, source) == [name |-> name, source |-> source]

\* None, where a table is expected
NotCached == <<Func("None", "None")>>

\* _llm_funcs, the loop over config.llm_funcs: import_module_value(path)
\* is the function of that name.
RECURSIVE AddImports(_, _)
AddImports(acc, paths) ==
    IF paths = <<>> THEN acc
    ELSE AddImports(
            IF Head(paths) \in acc.done THEN acc
            ELSE [acc EXCEPT !.done = @ \cup {Head(paths)},
                             !.funcs = Append(@, Func(Head(paths), "import"))],
            Tail(paths))

\* _llm_funcs, the loop over config.methods_as_funcs: getattr raises for a
\* missing attribute; an attribute that is an LLMFunc is appended, `done`
\* is neither read nor written.
RECURSIVE AddMethods(_, _)
AddMethods(acc, methods) ==
    IF methods = <<>> \/ acc.raised THEN acc
    ELSE AddMethods(
            IF Head(methods) = "nope" THEN [acc EXCEPT !.raised = TRUE]
            ELSE IF Head(methods) = "op_finish"
            THEN [acc EXCEPT !.funcs = Append(@, Func("op_finish", "method"))]
            ELSE acc,
            Tail(methods))

\* _llm_funcs, the loops over config.stages_as_func and thinks_as_func
RECURSIVE AddAliased(_, _, _)
AddAliased(acc, entries, source) ==
    IF entries = <<>> THEN acc
    ELSE LET e == Head(entries)
             func_name == IF e.alias # "" THEN e.alias ELSE e.target
         IN  AddAliased(
                IF func_name \in acc.done THEN acc
                ELSE [acc EXCEPT !.done = @ \cup {func_name},
                                 !.funcs = Append(@, Func(func_name, source))],
                Tail(entries), source)

\* AgentStage._llm_funcs
llm_funcs_build(config) ==
    LET a0 == [done |-> {}, funcs |-> <<>>, raised |-> FALSE]
        a1 == AddImports(a0, config.llm_funcs)
        a2 == AddMethods(a1, config.methods_as_funcs)
        a3 == AddAliased(a2, config.stages_as_func, "stage")
    IN  IF a2.raised THEN a2
        ELSE AddAliased(a3, config.thinks_as_func, "think")

\* An AgentStage just constructed from some configuration.
FuncsInit ==
    /\ f_config \in [llm_funcs : SeqsUpTo(FuncNames, MaxSources),
                     methods_as_funcs : SeqsUpTo(MethodNames, MaxSources),
                     stages_as_func : SeqsUpTo(Aliased, MaxAliases),
                     thinks_as_func : SeqsUpTo(Aliased, MaxAliases)]
    /\ f_cached = NotCached /\ f_ret = NotCached
    /\ f_builds = 0 /\ f_calls = 0 /\ f_pc = "ready"

FuncsIdle ==
    /\ f_config = [llm_funcs |-> <<>>, methods_as_funcs |-> <<>>,
                   stages_as_func |-> <<>>, thinks_as_func |-> <<>>]
    /\ f_cached = NotCached /\ f_ret = NotCached
    /\ f_builds = 0 /\ f_calls = 0 /\ f_pc = "idle"

\* AgentStage.llm_funcs, one call (a first one, or a later one)
LlmFuncs ==
    /\ f_pc \in {"ready", "returned"} /\ f_calls < 2
    /\ f_calls' = f_calls + 1
    /\ IF f_cached # NotCached
       THEN /\ f_ret' = f_cached /\ f_pc' = "returned"
            /\ UNCHANGED <<f_cached, f_builds>>
       ELSE LET built == llm_funcs_build(f_config) IN
            /\ f_builds' = f_builds + 1
            /\ IF built.raised
               THEN f_pc' = "raised" /\ UNCHANGED <<f_cached, f_ret>>
               ELSE /\ f_cached' = built.funcs /\ f_ret' = built.funcs
                    /\ f_pc' = "returned"
    /\ UNCHANGED f_config
    /\ UNCHANGED <<dvars, pvars, cvars, avars, mvars, uvars, svars, evars>>

(***************************************************************************)
(* Part VIII.  CtxTool.force_fetch_stage (ghost/tool.py) and               *)
(* Mindset.force_fetch (ghost/mindset/mindset.py).                         *)
(***************************************************************************)

Resolvers == {"r1", "r2"}
StageNames == {"", "s", "t"}
NoThink == "None"     \* Python None where a Think is expected

\* What a lookup returned (kind "Stage" or "Think") or raised (kind the
\* exception's class).
Lookup(kind, think, stage) == [kind |-> kind, think |-> think, stage |-> stage]
NoLookup == Lookup("none", NoThink, NoStage)

\* Mindset.fetch: the Think registered under the name, or None.
mindset_fetch(thinking) ==
    IF thinking \in s_registered THEN thinking ELSE NoThink

\* Think.fetch_stage: the stage of that name, or None.
think_fetch_stage(think, stage_name) ==
    IF stage_name \in s_stages[think] THEN stage_name ELSE NoStage

\* Mindset.force_fetch
force_fetch(thinking) ==
    LET fetched == mindset_fetch(thinking) IN
    IF fetched = NoThink
    THEN Lookup("MindsetNotFoundException", NoThink, NoStage)
    ELSE Lookup("Think", fetched, NoStage)

\* CtxTool.force_fetch_stage: mindset.fetch, not force_fetch, so that for
\* an unregistered name fetch_stage is called on None.
force_fetch_stage(think, stage_name) ==
    LET fetched == mindset_fetch(think) IN
    IF fetched = NoThink THEN Lookup("AttributeError", NoThink, NoStage)
    ELSE IF think_fetch_stage(fetched, stage_name) = NoStage
    THEN Lookup("MindsetNotFoundException", fetched, NoStage)
    ELSE Lookup("Stage", fetched, think_fetch_stage(fetched, stage_name))

\* A mindset with any of the resolvers registered, each Think declaring
\* its entry stage and any other stages, asked for a resolver and a stage.
StageInit ==
    /\ s_registered \in SUBSET Resolvers
    /\ s_stages \in [Resolvers -> {D \cup {""} : D \in SUBSET (StageNames \ {""})}]
    /\ s_think \in Resolvers
    /\ s_stage \in StageNames
    /\ s_out = NoLookup
    /\ s_pc = "idle"

StageIdle ==
    /\ s_registered = {} /\ s_stages = [r \in Resolvers |-> {""}]
    /\ s_think = "r1" /\ s_stage = ""
    /\ s_out = NoLookup /\ s_pc = "idle"

ForceFetchStage ==
    /\ s_pc = "idle"
    /\ s_out' = force_fetch_stage(s_think, s_stage)
    /\ s_pc' = "stage"
    /\ UNCHANGED <<s_registered, s_stages, s_think, s_stage>>
    /\ UNCHANGED <<dvars, pvars, cvars, avars, mvars, uvars, fvars, evars>>

ForceFetch ==
    /\ s_pc = "idle"
    /\ s_out' = force_fetch(s_think)
    /\ s_pc' = "think"
    /\ UNCHANGED <<s_registered, s_stages, s_think, s_stage>>
    /\ UNCHANGED <<dvars, pvars, cvars, avars, mvars, uvars, fvars, evars>>

(***************************************************************************)
(* Part IX.  RuntimeTool.fire_event (ghost/tool.py): the task, the thought *)
(* the stage handler works on, and the task stored after it.              *)
(***************************************************************************)

MaxOverdue == 1      \* largest Task.overdue
MaxPriority == 1     \* largest Task.priority

\* Task.routers / Thought.attentions: None, an empty list, a list of URLs.
RouterValues == {"None", "[]", "[x]"}
VarValues == {VarsNone, "a", "b"}

ETasks ==
    [status : {"NEW", "RUNNING", "WAITING"}, level : Levels,
     overdue : 0..MaxOverdue, priority : 0..MaxPriority,
     routers : RouterValues, vars : VarValues]

NoETask == [status |-> "absent", level |-> "PUBLIC", overdue |-> 0,
            priority |-> 0, routers |-> "None", vars |-> VarsNone]

EThoughts ==
    [level : Levels, overdue : 0..MaxOverdue, priority : 0..MaxPriority,
     attentions : RouterValues, vars : VarValues]

\* RuntimeTool.new_task: the fresh Task of a URL.
NewETask == [status |-> "NEW", level |-> "PUBLIC", overdue |-> 0,
             priority |-> 0, routers |-> "None", vars |-> VarsNone]

\* RuntimeTool.new_thought: Thought.__init__ with its defaults, the class
\* attribute attentions = None, and the variables prepare(args) sets.
NewThought == [level |-> "PUBLIC", overdue |-> 0, priority |-> 0,
               attentions |-> "None", vars |-> "a"]

\* RuntimeTool.merge_task_to_thought without `thought.attentions =
\* task.routers`.
MergeTaskToThoughtNoRouters(task, thought) ==
    [thought EXCEPT !.vars = IF task.vars # VarsNone THEN task.vars ELSE @,
                    !.level = task.level, !.overdue = task.overdue,
                    !.priority = task.priority]

\* RuntimeTool.merge_task_to_thought
MergeTaskToThought(task, thought) ==
    [thought EXCEPT !.vars = IF task.vars # VarsNone THEN task.vars ELSE @,
                    !.level = task.level, !.overdue = task.overdue,
                    !.priority = task.priority, !.attentions = task.routers]

\* RuntimeTool.merge_thought_to_task
MergeThoughtToTask(thought, task) ==
    [task EXCEPT !.vars = thought.vars, !.level = thought.level,
                 !.overdue = thought.overdue, !.priority = thought.priority,
                 !.routers = thought.attentions]

\* Mind.__init__(this): a handler that binds a Mind to the thought.
MindInit(thought) == [thought EXCEPT !.attentions = "None"]

\* The target of an event: no task stored yet, or a stored one.
EventInit ==
    /\ e_task \in ETasks \cup {NoETask}
    /\ e_was = NoETask
    /\ e_given = NewThought /\ e_thought = NewThought
    /\ e_log = <<>>
    /\ e_pc = "ready"

EventIdle ==
    /\ e_task = NoETask /\ e_was = NoETask
    /\ e_given = NewThought /\ e_thought = NewThought
    /\ e_log = <<>> /\ e_pc = "idle"

\* RuntimeTool.fire_event: the stage handler may leave the thought in any
\* state, the one it was given included.
FireEvent ==
    /\ e_pc = "ready"
    /\ \E left \in EThoughts :
          LET given == IF e_task # NoETask
                       THEN MergeTaskToThought(e_task, NewThought)
                       ELSE NewThought
              base == IF e_task = NoETask THEN NewETask ELSE e_task
          IN  /\ e_given' = given
              /\ e_thought' = left
              /\ e_task' = MergeThoughtToTask(left, base)
    /\ e_was' = e_task
    /\ e_log' = e_log \o <<"on_event", "store_task">>
    /\ e_pc' = "fired"
    /\ UNCHANGED <<dvars, pvars, cvars, avars, mvars, uvars, fvars, svars>>

\* run_dominos: the operator the event's caller answered runs next.
RunReturned ==
    /\ e_pc = "fired"
    /\ e_log' = Append(e_log, "run")
    /\ e_pc' = "ran"
    /\ UNCHANGED <<e_task, e_was, e_given, e_thought>>
    /\ UNCHANGED <<dvars, pvars, cvars, avars, mvars, uvars, fvars, svars>>

\* The run-loop variables of Part I, at rest.
DominoIdle ==
    /\ d_initial = NoOp /\ d_script = [e \in Elems |-> 0] /\ d_nest = FALSE
    /\ d_fail = NoFail /\ d_ovf = -1 /\ d_op = NoOp /\ d_count = 0
    /\ d_pc = "idle" /\ d_exc = FALSE /\ d_log = <<>> /\ d_ran = <<>>
    /\ d_saves = 0

\* The process variables, at rest.
ProcessIdle ==
    /\ store = [t \in Tids |-> NoTask]
    /\ process = [root |-> RootTid, awaiting |-> RootTid, blocking |-> <<>>,
                  waiting |-> <<>>, canceling |-> <<>>, failing |-> <<>>,
                  quiting |-> FALSE, parent |-> FALSE, is_new |-> FALSE]
    /\ input = NoInput
    /\ op = NoneOp /\ count = 0 /\ ran = NoneOp /\ was = NoTask
    /\ fired = <<>> /\ error = "none" /\ sent = <<>>

\* The models of Parts IV and later, at rest.
OthersIdle ==
    TemplateIdle /\ CommandIdle /\ UrlIdle /\ FuncsIdle /\ StageIdle
        /\ EventIdle

Init == ProcessInit /\ DominoIdle /\ ContextIdle /\ OthersIdle

Next ==
    \/ ReceiveInput \/ Intending \/ TaskedMessage
    \/ UnhandledInput \/ Activate \/ Rewind \/ Await \/ Forward \/ Finish
    \/ Withdraw \/ Schedule \/ Reset \/ Restart \/ DependOn \/ YieldTo

Spec == Init /\ [][Next]_vars

InitFirstRound == NewProcessInit /\ DominoIdle /\ ContextIdle /\ OthersIdle

NextFirstRound == ReceiveInput \/ TaskedMessage \/ ChainRun

SpecFirstRound == InitFirstRound /\ [][NextFirstRound]_vars

\* The operators that register, resolve or re-enter dependencies.
NextDepend ==
    \/ DependOn \/ Finish \/ Withdraw \/ Restart \/ Activate \/ Schedule

SpecDepend == Init /\ [][NextDepend]_vars

InitOrphan == OrphanInit /\ DominoIdle /\ ContextIdle /\ OthersIdle

NextOrphan == ScheduleAgain \/ WithdrawAgain

\* The loop of run_dominos takes its next iteration whenever there is an
\* operator to run.
SpecOrphan == InitOrphan /\ [][NextOrphan]_vars /\ WF_vars(NextOrphan)

InitDominos == DominoInit /\ ProcessIdle /\ ContextIdle /\ OthersIdle

NextDominos ==
    \/ run_dominos_enter \/ run_dominos_iterate \/ run_dominos_exit
    \/ run_dominos_finally

SpecDominos == InitDominos /\ [][NextDominos]_vars

InitContext == ContextInit /\ ProcessIdle /\ DominoIdle /\ OthersIdle

NextContext == ContextAttentions

SpecContext == InitContext /\ [][NextContext]_vars

InitIntentions == IntentionsInit /\ ProcessIdle /\ DominoIdle /\ OthersIdle

NextIntentions == ContextIntentions

SpecIntentions == InitIntentions /\ [][NextIntentions]_vars

\* The models of Parts I to III, at rest.
CoreIdle == ProcessIdle /\ DominoIdle /\ ContextIdle

InitTemplate ==
    TemplateInit /\ CoreIdle /\ CommandIdle /\ UrlIdle /\ FuncsIdle
        /\ StageIdle /\ EventIdle

NextTemplate ==
    \/ AbsOperator_intercept \/ AbsOperator_run_operation
    \/ AbsOperator_fallback

SpecTemplate == InitTemplate /\ [][NextTemplate]_vars

InitCommand ==
    CommandInit /\ CoreIdle /\ TemplateIdle /\ UrlIdle /\ FuncsIdle
        /\ StageIdle /\ EventIdle

NextCommand == MatchRawText

SpecCommand == InitCommand /\ [][NextCommand]_vars

InitUrl ==
    UrlInit /\ CoreIdle /\ TemplateIdle /\ CommandIdle /\ FuncsIdle
        /\ StageIdle /\ EventIdle

NextUrl == ToStage \/ NewArgs \/ WriteArgs

SpecUrl == InitUrl /\ [][NextUrl]_vars

InitFuncs ==
    FuncsInit /\ CoreIdle /\ TemplateIdle /\ CommandIdle /\ UrlIdle
        /\ StageIdle /\ EventIdle

NextFuncs == LlmFuncs

SpecFuncs == InitFuncs /\ [][NextFuncs]_vars

InitStage ==
    StageInit /\ CoreIdle /\ TemplateIdle /\ CommandIdle /\ UrlIdle
        /\ FuncsIdle /\ EventIdle

NextStage == ForceFetchStage \/ ForceFetch

SpecStage == InitStage /\ [][NextStage]_vars

InitEvent ==
    EventInit /\ CoreIdle /\ TemplateIdle /\ CommandIdle /\ UrlIdle
        /\ FuncsIdle /\ StageIdle

NextEvent == FireEvent \/ RunReturned

SpecEvent == InitEvent /\ [][NextEvent]_vars

(***************************************************************************)
(* Properties.                                                             *)
(***************************************************************************)

\* C1: in every state of a round on a persisted process, process.awaiting
\* is the id of a task that exists in the store; no operator (Await,
\* ReceiveInput's payload check, Reset, ...) leaves it dangling.
C1_AwaitingExists ==
    process.awaiting \in Tids /\ store[process.awaiting] # NoTask

\* An Await with a tid has run on a task that was running and is not the
\* root, and it now is the awaiting task.
C1_Witness ==
    /\ ran.kind = "Await" /\ error = "none"
    /\ ran.tid \in Tids \ {RootTid}
    /\ was.status = "RUNNING"
    /\ process.awaiting = ran.tid
    /\ store[ran.tid].status = "WAITING"

\* C2: a task created from a URL is NEW, and Activate on a NEW task (found
\* or just created) stores it RUNNING before the handler runs, fires exactly
\* one event, an Activating at the operator's target stage, and raises
\* nothing.
C2_ActivateNew ==
    (ran.kind = "Activate"
        /\ (was.status = "NEW" \/ (was = NoTask /\ ran.tid = NoTid))) =>
        /\ new_task.status = "NEW"
        /\ error = "none"
        /\ fired = <<Ev("Activating", OpTid(ran), ran.stage, "RUNNING",
                        VarsNone, op)>>
        /\ store[OpTid(ran)].status = "RUNNING"

\* Activate has created the task of its URL and activated it at a stage
\* that is not the stage of the new task.
C2_Witness ==
    /\ ran.kind = "Activate" /\ was = NoTask /\ ran.tid = NoTid
    /\ ran.stage = "s" /\ store[OpTid(ran)].stage = ""
    /\ Len(fired) = 1 /\ fired[1].seen = "RUNNING"

\* Activate has run on a task that was stored NEW.
C2_WitnessStored ==
    /\ ran.kind = "Activate" /\ was.status = "NEW" /\ ran.tid # NoTid
    /\ Len(fired) = 1 /\ fired[1].seen = "RUNNING"

\* C3: after Forward(tid, stages) the continuation is Activate of the same
\* task at the head of the queue (the stored pending stages followed by
\* `stages`) and that stage is no longer in the stored queue; with an empty
\* queue the continuation is Finish(tid, current stage).
C3_ForwardPops ==
    (ran.kind = "Forward" /\ was # NoTask) =>
        LET q == was.pending \o ran.stages IN
        IF q # <<>>
        THEN /\ op = ActivateOp(ran.tid, Head(q), ran.tid)
             /\ store[ran.tid].pending = Tail(q)
        ELSE op = FinishOp(ran.tid, was.stage)

\* Forward has pushed a stage: it raised, no operator follows and the
\* stage is still the head of the stored queue.
C3_ForwardRaises ==
    /\ ran.kind = "Forward" /\ was # NoTask /\ ran.stages = <<"s">>
    /\ error = "AttributeError" /\ op = NoneOp
    /\ store[ran.tid].pending = was.pending \o ran.stages

\* Forward has run with nothing pending: Finish at the current stage follows.
C3_ForwardFinishes ==
    /\ ran.kind = "Forward" /\ was # NoTask /\ ran.stages = <<>>
    /\ error = "none" /\ op = FinishOp(ran.tid, was.stage)

\* C4: after Finish(tid, s) on a task with n >= 0 listeners the stored task
\* is FINISHED at s with no listeners, every listener is stored PREEMPTING,
\* nothing is raised and the continuation is Schedule.
C4_FinishStores ==
    (ran.kind = "Finish" /\ was # NoTask) =>
        /\ error = "none"
        /\ op = ScheduleOp
        /\ store[ran.tid].status = "FINISHED"
        /\ store[ran.tid].stage = ran.stage
        /\ store[ran.tid].callbacks = {}
        /\ \A c \in was.callbacks : store[c].status = "PREEMPTING"

\* Finish has run on a task with two listeners: it raised, the task is not
\* FINISHED and the listeners still depend.
C4_TwoListeners ==
    /\ ran.kind = "Finish" /\ Cardinality(was.callbacks) = 2
    /\ error = "AttributeError"
    /\ store[ran.tid].status # "FINISHED"
    /\ \A c \in was.callbacks : store[c].status = "DEPENDING"

\* Finish has run on a task without listeners: it continues with Schedule
\* and the stored task is not FINISHED.
C4_NoListener ==
    /\ ran.kind = "Finish" /\ was # NoTask /\ was.callbacks = {}
    /\ error = "none" /\ op = ScheduleOp
    /\ store[ran.tid] = was

\* C5: DependOn(tid, s, target) with a FINISHED target fires exactly one
\* event, a Callback with the target's result at tid's current stage (so
\* none at the target), registers no listener and leaves tid's status;
\* with a DEAD target it continues with Cancel(tid), fires nothing and
\* registers nothing.
C5_DependOnFinal ==
    (ran.kind = "DependOn" /\ was # NoTask) =>
        LET target == store[ran.target] IN
        /\ target.status = "FINISHED" =>
              /\ error = "none"
              /\ fired = <<Ev("Callback", ran.tid, was.stage, was.status,
                              ThinkResult(target.vars), op)>>
              /\ ran.tid \notin target.callbacks
              /\ store[ran.tid].status = was.status
        /\ target.status = "DEAD" =>
              /\ error = "none"
              /\ op = WithdrawOp("Cancel", ran.tid, NoStage)
              /\ fired = <<>>
              /\ ran.tid \notin target.callbacks
              /\ store[ran.tid] = was

\* DependOn has run with a FINISHED target: it raised and fired nothing.
C5_Witness ==
    /\ ran.kind = "DependOn" /\ was # NoTask /\ was.status # "DEPENDING"
    /\ store[ran.target].status = "FINISHED"
    /\ error = "AttributeError" /\ fired = <<>>

\* DependOn has run with a DEAD target.
C5_WitnessDead ==
    /\ ran.kind = "DependOn" /\ was # NoTask
    /\ store[ran.target].status = "DEAD"
    /\ op.kind = "Cancel" /\ op.tid = ran.tid

\* C6: Schedule continues with Cancel(first of canceling) whenever canceling
\* is non-empty, whatever failing, the fallback task and quiting are; with
\* Fail(first of failing) when canceling is empty and failing is not; it
\* then fires no event, raises nothing and stores nothing.
C6_ScheduleQueues ==
    [][(op.kind = "Schedule" /\ count' = count + 1) =>
          /\ Len(process.canceling) > 0 =>
                /\ op' = WithdrawOp("Cancel", Head(process.canceling), NoStage)
                /\ fired' = <<>> /\ error' = "none"
                /\ UNCHANGED <<store, process>>
          /\ (Len(process.canceling) = 0 /\ Len(process.failing) > 0) =>
                /\ op' = WithdrawOp("Fail", Head(process.failing), NoStage)
                /\ fired' = <<>> /\ error' = "none"
                /\ UNCHANGED <<store, process>>]_vars

\* Schedule has run with both queues non-empty, a fallback task and quiting
\* set: it chose Cancel.
C6_Witness ==
    /\ ran.kind = "Schedule" /\ op.kind = "Cancel"
    /\ Len(process.canceling) > 0 /\ Len(process.failing) > 0
    /\ process.quiting /\ process_fallback(Cur) # NoTid
    /\ op.tid = Head(process.canceling)

\* Schedule has run with canceling empty and failing not: it chose Fail.
C6_WitnessFail ==
    /\ ran.kind = "Schedule" /\ op.kind = "Fail"
    /\ Len(process.canceling) = 0 /\ Len(process.failing) > 0
    /\ op.tid = Head(process.failing)

\* Every candidate of a result map, whatever its kind.
Candidates(result) ==
    UNION {{result[k][i] : i \in 1..Len(result[k])} : k \in Kinds}

Cascade(e) == [k \in 1..(d_script[e] + 1) |-> Leaf(e, k - 1)]

RECURSIVE ExpectedRuns(_)
ExpectedRuns(chain) ==
    IF chain = <<>> THEN <<>>
    ELSE Cascade(Head(chain).el) \o ExpectedRuns(Tail(chain))

IsPrefix(a, b) == Len(a) <= Len(b) /\ SubSeq(b, 1, Len(a)) = a

\* C8: a ChainOperator([op1 .. opn]) driven by the run loop runs the
\* elements in list order, each exactly once, with every continuation an
\* element produces run to exhaustion before the next element; when the
\* loop returns, everything has run and no continuation is left.
C8_ChainOrder ==
    d_initial.kind = "Chain" =>
        /\ IsPrefix(d_ran, ExpectedRuns(d_initial.chain))
        /\ d_pc = "returned" =>
              /\ d_ran = ExpectedRuns(d_initial.chain)
              /\ d_op = NoOp

\* The loop has returned from a chain of two elements whose first has a
\* cascade of two continuations, the first of them itself a chain.
C8_Witness ==
    /\ d_pc = "returned" /\ d_initial.kind = "Chain"
    /\ Len(d_initial.chain) = 2
    /\ d_script[d_initial.chain[1].el] = 2 /\ d_nest
    /\ Len(d_ran) >= 4

CallNames == <<"is_stackoverflow", "trace", "run", "destroy">>

\* C9: run_dominos is strictly sequential: for each operator
\* is_stackoverflow, trace, run, destroy, in this order and once each; the
\* next operator is exactly what run returned; the loop stops when and only
\* when run returned none, a true answer of is_stackoverflow not stopping it.
C9_Sequential ==
    /\ \A i \in 1..Len(d_log) :
          /\ d_log[i].call = CallNames[((i - 1) % 4) + 1]
          /\ d_log[i].n = (i - 1) \div 4
          /\ d_log[i].op # NoOp
          /\ d_log[i].op =
                IF i = 1 THEN d_initial
                ELSE IF i % 4 = 1
                     THEN OperatorRun(d_log[i - 1].op, FALSE).after
                     ELSE d_log[i - 1].op
    /\ d_pc = "returned" =>
          /\ Len(d_log) % 4 = 0 /\ Len(d_log) > 0
          /\ OperatorRun(d_log[Len(d_log)].op, FALSE).after = NoOp
    /\ (d_pc = "loop" /\ d_log # <<>>) =>
          d_op = OperatorRun(d_log[Len(d_log)].op, FALSE).after

\* is_stackoverflow has answered True for one operator, and the loop went
\* on to the next operator and returned.
C9_Witness ==
    /\ d_pc = "returned"
    /\ \E i \in 1..Len(d_log) :
          /\ d_log[i].call = "is_stackoverflow" /\ d_log[i].result
          /\ Len(d_log) >= i + 7

\* C10: save_trace runs exactly once per round, on the normal exit and on
\* every raising exit, and not before the loop is over; an error leaves
\* the round after save_trace, and no call follows the one that raised.
C10_SaveTraceOnce ==
    /\ d_pc \in {"returned", "raised"} => d_saves = 1
    /\ d_pc \in {"idle", "loop", "finally"} => d_saves = 0
    /\ d_pc = "raised" <=> (d_exc /\ d_pc \notin {"loop", "finally"})
    /\ d_exc =>
          /\ d_pc # "returned"
          /\ d_log # <<>>
          /\ d_log[Len(d_log)].call = d_fail.call
          /\ d_log[Len(d_log)].n = d_fail.at

\* A run() raised in the second iteration; save_trace has run once and the
\* error has left the round.
C10_Witness ==
    /\ d_pc = "raised" /\ d_saves = 1
    /\ d_fail.call = "run" /\ d_fail.at = 1
    /\ Len(d_log) = 7

\* C11: AbsOperator.run returns the answer of _intercept when that is an
\* operator and then calls neither _run_operation nor _fallback; otherwise
\* it calls _run_operation and returns its answer when that is an operator,
\* without calling _fallback; _fallback is called, and its answer returned,
\* only when both answered None.  No hook is called twice or out of order.
C11_Template ==
    LET i == a_hooks["_intercept"]
        r == a_hooks["_run_operation"]
    IN  /\ a_pc = "returned" =>
              IF i # NoneOp
              THEN a_ret = i /\ a_calls = <<"_intercept">>
              ELSE IF r # NoneOp
              THEN a_ret = r /\ a_calls = <<"_intercept", "_run_operation">>
              ELSE /\ a_ret = a_hooks["_fallback"]
                   /\ a_calls = <<"_intercept", "_run_operation", "_fallback">>
        /\ (\E k \in 1..Len(a_calls) : a_calls[k] = "_run_operation") =>
              i = NoneOp
        /\ (\E k \in 1..Len(a_calls) : a_calls[k] = "_fallback") =>
              i = NoneOp /\ r = NoneOp
        /\ a_calls \in {<<>>, <<"_intercept">>,
                        <<"_intercept", "_run_operation">>,
                        <<"_intercept", "_run_operation", "_fallback">>}

\* run has returned the operator of _run_operation although _fallback
\* would have answered another operator: _fallback was not called.
C11_Witness ==
    /\ a_pc = "returned"
    /\ a_hooks["_intercept"] = NoneOp
    /\ a_hooks["_run_operation"] = ScheduleOp
    /\ a_hooks["_fallback"] = ResetOp
    /\ a_ret = ScheduleOp
    /\ a_calls = <<"_intercept", "_run_operation">>

\* C12: Activate on a task stored FINISHED or DEAD restarts and stores the
\* task before it fires the Activating event: the handler of that event
\* never meets a stored status FINISHED or DEAD.
C12_RestartsFirst ==
    (ran.kind = "Activate" /\ was.status \in {"FINISHED", "DEAD"}) =>
        /\ error = "none"
        /\ Len(fired) = 1
        /\ fired[1].kind = "Activating"
        /\ fired[1].tid = OpTid(ran)
        /\ fired[1].seen \notin {"FINISHED", "DEAD"}

\* Activate has run on a FINISHED task and its Activating handler met the
\* task still FINISHED, with the variables it finished with.
C12_StillFinished ==
    /\ ran.kind = "Activate" /\ was.status = "FINISHED"
    /\ Len(fired) = 1 /\ fired[1].kind = "Activating"
    /\ fired[1].seen = "FINISHED"
    /\ store[OpTid(ran)].vars = was.vars

\* C13: Activate on a task stored PREEMPTING, DEPENDING or YIELDING fires
\* exactly one event, a Preempted at the task's own current stage, and no
\* Activating.
C13_PreemptedAtOwnStage ==
    (ran.kind = "Activate"
        /\ was.status \in {"PREEMPTING", "DEPENDING", "YIELDING"}) =>
        /\ error = "none"
        /\ Len(fired) = 1
        /\ fired[1].kind = "Preempted"
        /\ fired[1].tid = OpTid(ran)
        /\ fired[1].stage = was.stage

\* Activate has run at stage "" on a DEPENDING task parked at stage "s":
\* it fired an Activating at "".
C13_ActivatingFired ==
    /\ ran.kind = "Activate" /\ was.status = "DEPENDING"
    /\ was.stage = "s" /\ ran.stage = ""
    /\ Len(fired) = 1 /\ fired[1].kind = "Activating"
    /\ fired[1].stage = ""

\* A withdrawal of one of `kinds` whose event the stage handler answers
\* with an operator: the event went to the task's current stage and met
\* the task as stored, nothing is raised, the handler's operator is the
\* continuation, and no task changes status or listeners.
VetoHolds(kinds) ==
    (op.kind \in kinds /\ count' = count + 1
        /\ Len(fired') >= 1 /\ fired'[1].after # NoneOp) =>
        /\ error' = "none"
        /\ fired' = <<Ev(WithdrawEvent(op.kind), op.tid, store[op.tid].stage,
                         store[op.tid].status, VarsNone, op')>>
        /\ op' = fired'[1].after
        /\ op' # ScheduleOp
        /\ \A t \in Tids :
              /\ store'[t].status = store[t].status
              /\ store'[t].callbacks = store[t].callbacks

\* C14: Cancel, Fail and Quit deliver their event to the target's current
\* stage before any change of state, and a handler that answers an operator
\* vetoes the withdrawal: nothing is marked DEAD, no listener set is
\* cleared, no listener changes status, and the continuation is the
\* handler's operator, not Schedule.
C14_Veto == [][VetoHolds(WithdrawKinds)]_vars

\* C14 for Cancel and Fail alone.
C14_VetoCancelFail == [][VetoHolds({"Cancel", "Fail"})]_vars

\* The handler of a Quiting event answered an operator: Quit raised and
\* the round ended without that operator.
C14_QuitVetoRaises ==
    /\ ran.kind = "Quit" /\ Len(fired) = 1
    /\ fired[1].kind = "Quiting" /\ fired[1].after # NoneOp
    /\ error = "AttributeError" /\ op = NoneOp

\* The status a withdrawal gives to the listeners of its task.
ListenerStatus(kind) == IF kind = "Fail" THEN "FAILING" ELSE "CANCELING"

\* The withdrawal that ran last was not intercepted.
NotIntercepted ==
    /\ ran.kind \in WithdrawKinds /\ was # NoTask
    /\ Len(fired) = 1 /\ fired[1].after = NoneOp

\* C15: after a Cancel, Fail or Quit that no handler intercepted, the task
\* is stored DEAD without listeners, each of its n >= 1 former listeners is
\* stored CANCELING (Cancel, Quit) or FAILING (Fail), and the continuation
\* is Schedule.
C15_WithdrawStores ==
    NotIntercepted =>
        /\ error = "none"
        /\ op = ScheduleOp
        /\ store[ran.tid].status = "DEAD"
        /\ store[ran.tid].callbacks = {}
        /\ \A c \in was.callbacks :
              store[c].status = ListenerStatus(ran.kind)

\* A Cancel ran unintercepted on a task with two listeners: it raised, the
\* task is not DEAD and the listeners still depend on it.
C15_TwoListeners ==
    /\ NotIntercepted /\ ran.kind = "Cancel"
    /\ Cardinality(was.callbacks) = 2
    /\ error = "AttributeError"
    /\ store[ran.tid].status = was.status
    /\ store[ran.tid].callbacks = was.callbacks
    /\ \A c \in was.callbacks : store[c].status = "DEPENDING"

\* C16, the step of the cascade: an unintercepted Cancel or Fail of a task
\* continues with Schedule, which never withdraws that task a second time
\* (it is in neither withdrawal queue any more) and finds every listener
\* of the task queued for its own withdrawal; so each task of a chain gets
\* its event once and the queues drain.
C16_WithdrawnOnce ==
    (NotIntercepted /\ ran.kind \in {"Cancel", "Fail"}) =>
        /\ error = "none"
        /\ op = ScheduleOp
        /\ \A i \in 1..Len(process.canceling) : process.canceling[i] # ran.tid
        /\ \A i \in 1..Len(process.failing) : process.failing[i] # ran.tid
        /\ \A c \in was.callbacks :
              \/ \E i \in 1..Len(process.canceling) : process.canceling[i] = c
              \/ \E i \in 1..Len(process.failing) : process.failing[i] = c

\* Schedule took a task from the canceling queue, its Cancel ran without
\* interception, and the Schedule that follows is about to cancel the same
\* task again.
C16_WithdrawnAgain ==
    /\ NotIntercepted /\ ran.kind = "Cancel" /\ error = "none"
    /\ was.status = "CANCELING"
    /\ op = ScheduleOp
    /\ ScheduleQueues(Cur) = WithdrawOp("Cancel", ran.tid, NoStage)

\* The words of a text after its command name, in order.
WordsAfterName(text) ==
    SelectSeq(SubSeq(text, 3, Len(text)), LAMBDA a : a # Space)

\* The text starts with the prefix and names a candidate command.
NamesCommand(text, metas) ==
    /\ text[1] = Prefix
    /\ \E i \in 1..Len(metas) : metas[i].name = text[2]

\* C17: matching a text against commands has three outcomes and no other:
\* no match, raising nothing, exactly when the text does not start with
\* "/" or names no candidate; for a known command either a match whose
\* params have error = false and hold the bound values ("/set foo" with
\* the required positional key gives key = "foo"), or InvalidInput ("/set"
\* with the required positional); a result with error = true is never
\* returned.
C17_ThreeOutcomes ==
    m_pc = "done" =>
        /\ m_out.kind \in {"none", "match", "InvalidInput"}
        /\ m_out.kind = "none" <=> ~NamesCommand(m_text, m_metas)
        /\ m_out.kind = "match" => m_out.error = FALSE
        /\ (m_text = <<Prefix, "set", Space, "foo">> /\ m_metas[1].arg) =>
              m_out.kind = "match" /\ m_out.params.key = "foo"
        /\ (m_text = <<Prefix, "set">> /\ m_metas[1].arg) =>
              m_out.kind = "InvalidInput"

\* "/set -o" for a command set with the option opt: the option lacks its
\* value and the error that leaves match_raw_text is argparse's
\* ArgumentError.
C17_ArgumentError ==
    /\ m_pc = "done"
    /\ m_text = <<Prefix, "set", Space, "-o">>
    /\ m_metas[1].opt
    /\ m_out.kind = "ArgumentError"

\* C18: for "/<name> t1 ... tn" with a registered name the argument parser
\* is given exactly the words t1 .. tn, in order, for every n >= 0.
C18_AllTokens ==
    (m_pc = "done" /\ NamesCommand(m_text, m_metas)) =>
        m_out.args = WordsAfterName(m_text)

\* "/set --opt v": the parser was given "--opt" alone.
C18_ValueDropped ==
    /\ m_pc = "done"
    /\ m_text = <<Prefix, "set", Space, "--opt", Space, "v">>
    /\ m_metas[1].opt
    /\ m_out.args = <<"--opt">>
    /\ m_out.kind = "ArgumentError"

\* C19: to_stage(s) returns a URL with the source's resolver, stage s and
\* args equal to the source's; new_args(a) returns one with the source's
\* resolver and stage and args equal to a.  The call leaves the source URL
\* and the dict passed as they were, the copy's args map is a dict of its
\* own, and a later write to the args map of one object is not seen
\* through another: whatever was not written itself stays as it was when
\* the call returned.
C19_CopyIsolated ==
    u_pc = "copied" =>
        /\ u_src = u_orig.src
        /\ u_orig.heap[u_src.args] = u_orig.before[u_src.args]
        /\ u_orig.heap["arg"] = u_orig.before["arg"]
        /\ u_copy.resolver = u_src.resolver
        /\ u_call.method = "to_stage" =>
              /\ u_copy.stage = u_call.stage
              /\ u_orig.heap[u_copy.args] = u_orig.heap[u_src.args]
        /\ u_call.method = "new_args" =>
              /\ u_copy.stage = u_src.stage
              /\ u_orig.heap[u_copy.args] = u_orig.heap["arg"]
              /\ u_copy.args # "arg"
              /\ "passed" \notin u_via => u_heap["arg"] = u_orig.heap["arg"]
        /\ u_copy.args # u_src.args
        /\ "source" \notin u_via =>
              u_heap[u_src.args] = u_orig.heap[u_src.args]
        /\ "copy" \notin u_via =>
              u_heap[u_copy.args] = u_orig.heap[u_copy.args]

\* to_stage("x") on a URL at stage "" with args {"k": "1"}; the copy's map
\* was then written twice (k set to "2", j added) and the source still
\* reads {"k": "1"}.
C19_Witness ==
    /\ u_pc = "copied" /\ u_call.method = "to_stage"
    /\ u_src.stage = "" /\ u_copy.stage = "x"
    /\ u_via = {"copy"} /\ u_writes = 2
    /\ u_heap[u_copy.args] = [key \in Keys |-> "2"]
    /\ u_heap[u_src.args] =
          [key \in Keys |-> IF key = "k" THEN "1" ELSE Missing]

\* The functions a configuration offers, in the order import paths,
\* methods_as_funcs, stages_as_func, thinks_as_func.
Offered(config) ==
    [i \in 1..Len(config.llm_funcs) |-> Func(config.llm_funcs[i], "import")]
    \o [i \in 1..Len(SelectSeq(config.methods_as_funcs,
                               LAMBDA m : m = "op_finish")) |->
            Func("op_finish", "method")]
    \o [i \in 1..Len(config.stages_as_func) |->
            LET e == config.stages_as_func[i] IN
            Func(IF e.alias # "" THEN e.alias ELSE e.target, "stage")]
    \o [i \in 1..Len(config.thinks_as_func) |->
            LET e == config.thinks_as_func[i] IN
            Func(IF e.alias # "" THEN e.alias ELSE e.target, "think")]

\* Of a list of functions, the first of every name.
FirstOfName(funcs) ==
    LET first(i) == \A j \in 1..(i - 1) : funcs[j].name # funcs[i].name
        RECURSIVE keep(_)
        keep(i) == IF i > Len(funcs) THEN <<>>
                   ELSE (IF first(i) THEN <<funcs[i]>> ELSE <<>>) \o keep(i + 1)
    IN  keep(1)

\* C20: the table llm_funcs returns never holds two functions of one name:
\* of the functions offered, in the order import paths, methods_as_funcs,
\* stages_as_func, thinks_as_func, the first of every name is kept; with
\* methods_as_funcs = ["op_finish"] and nothing else it is the one function
\* op_finish; it is built once and every later call returns the same table.
C20_FirstNameWins ==
    f_pc = "returned" =>
        /\ \A i, j \in 1..Len(f_ret) :
              f_ret[i].name = f_ret[j].name => i = j
        /\ f_ret = FirstOfName(Offered(f_config))
        /\ (f_config = [llm_funcs |-> <<>>, methods_as_funcs |-> <<"op_finish">>,
                        stages_as_func |-> <<>>, thinks_as_func |-> <<>>]) =>
              f_ret = <<Func("op_finish", "method")>>
        /\ f_builds = 1
        /\ f_ret = f_cached

\* llm_funcs was called twice for a stage with the import path of a
\* function named op_finish and the method op_finish: the table holds two
\* functions named op_finish.
C20_TwoOfOneName ==
    /\ f_pc = "returned" /\ f_calls = 2 /\ f_builds = 1
    /\ f_config.llm_funcs = <<"op_finish">>
    /\ f_config.methods_as_funcs = <<"op_finish">>
    /\ f_ret = <<Func("op_finish", "import"), Func("op_finish", "method")>>

\* C21: when ReceiveInput has run on a process that had no root, nothing
\* was raised, the process's root names a stored task and that task is NEW
\* (so fetch_root_task succeeds), whether the input carries a target URL,
\* a Tasked payload or neither.
C21_RootEnsured ==
    [][(op.kind = "ReceiveInput" /\ process.root = NoTid) =>
          /\ error' = "none"
          /\ process'.root \in Tids
          /\ runtime_fetch_task([store |-> store', process |-> process'],
                                process'.root).status = "NEW"]_vars

\* ReceiveInput has run on a process without root and an input with a
\* target URL: it raised, and no task is stored.
C21_UrlRaises ==
    /\ ran.kind = "ReceiveInput" /\ count = 1
    /\ process.root = NoTid /\ input.url
    /\ error = "AttributeError"
    /\ \A t \in Tids : store[t] = NoTask

\* ReceiveInput has run on a process without root and an input with neither
\* URL nor Tasked payload: the task of the default root is stored NEW, the
\* process still has no root and fetch_root_task raised.
C21_RootUnassigned ==
    /\ ran.kind = "ReceiveInput" /\ count = 1
    /\ ~input.url /\ input.tasked = NoTid
    /\ store[RootTid].status = "NEW"
    /\ process.root = NoTid
    /\ error = "RuntimeException"

\* ReceiveInput has run on a process without root and an input with a
\* Tasked payload: the task of the payload's resolver is stored NEW and the
\* process still has no root.
C21_TaskedUnassigned ==
    /\ ran.kind = "ReceiveInput" /\ count = 1
    /\ ~input.url /\ input.tasked # NoTid
    /\ store[input.tasked].status = "NEW"
    /\ process.root = NoTid
    /\ op = TaskedMessageOp

\* C22: ReceiveInput on a process whose is_new is set: with an input without
\* Tasked payload it clears is_new in the stored process and continues with
\* Chain[Activate(root), ReceiveInput]; with a Tasked payload it continues
\* with TaskedMessage and leaves is_new set; and the ReceiveInput the chain
\* runs again does not return a chain.
C22_FirstRound ==
    [][/\ (op.kind = "ReceiveInput" /\ process.is_new) =>
             IF input.tasked # NoTid
             THEN op' = TaskedMessageOp /\ process'.is_new
             ELSE /\ ~process'.is_new
                  /\ process'.root \in Tids
                  /\ op' = ChainOp(<<ActivateOp(process'.root,
                                                store'[process'.root].stage,
                                                process'.root),
                                     ReceiveInputOp>>)
       /\ (op.kind = "Chain" /\ op.chain = <<ReceiveInputOp>>) =>
             /\ ~process.is_new
             /\ op'.kind # "Chain"]_vars

\* ReceiveInput has run on a new process without root and an input without
\* URL or Tasked payload: is_new is cleared, and the round ended in
\* fetch_root_task with no chain.
C22_ClearedNoChain ==
    /\ ran.kind = "ReceiveInput" /\ count = 1
    /\ input.tasked = NoTid /\ ~input.url
    /\ process.root = NoTid /\ ~process.is_new
    /\ error = "RuntimeException" /\ op = NoneOp

\* ReceiveInput has run on a new process with a root: is_new is cleared and
\* the chain follows.
C22_Chained ==
    /\ ran.kind = "ReceiveInput" /\ count = 1
    /\ process.root = RootTid /\ ~process.is_new
    /\ error = "none"
    /\ op = ChainOp(<<ActivateOp(RootTid, "", RootTid), ReceiveInputOp>>)

\* The chain has run ReceiveInput again: is_new was clear and no chain
\* follows.
C22_RerunNoChain ==
    /\ ran = ChainOp(<<ReceiveInputOp>>) /\ ~process.is_new
    /\ op = NoneOp /\ error = "AttributeError"

\* C23: the primary operation of ReceiveInput (a process that is not new,
\* an input without Tasked payload) raises nothing and continues with
\* Intending when one of the matches it tries in order hits (attentions,
\* then intentions, then the global match for a PUBLIC awaiting task), and
\* with UnhandledInput when none does.
C23_MatchOrder ==
    [][(op.kind = "ReceiveInput" /\ ~process.is_new /\ input.tasked = NoTid
            /\ runtime_fetch_task(Cur, process.awaiting) # NoTask) =>
          /\ error' = "none"
          /\ (op'.kind = "Intending" \/ op' = UnhandledInputOp)]_vars

\* ReceiveInput has run its primary operation on a persisted process whose
\* awaiting task exists: it has promoted the waiting task the payload names
\* and then raised at the first match; no operator follows.
C23_MatchRaises ==
    /\ ran.kind = "ReceiveInput" /\ count = 1
    /\ ~process.is_new /\ input.tasked = NoTid
    /\ input.tid # NoTid /\ process.awaiting = input.tid
    /\ input.tid # RootTid
    /\ error = "AttributeError" /\ op = NoneOp

\* C24: after Await(tid, stage, only, exclude) nothing is raised and no
\* operator follows; a task that was WAITING at the target stage is stored
\* as it was; any other task is stored WAITING at the target stage with one
\* attention for every reaction name the stage declares that passes the
\* filter, also when none passes and when the stage declares none.
C24_AwaitStores ==
    (ran.kind = "Await" /\ was # NoTask) =>
        LET target == IF ran.stage = NoStage THEN was.stage ELSE ran.stage
            now == store[ran.tid]
        IN  /\ error = "none"
            /\ op = NoneOp
            /\ IF was.status = "WAITING" /\ was.stage = target
               THEN now = was
               ELSE /\ now.status = "WAITING"
                    /\ now.stage = target
                    /\ now.attentions \in
                          {ApplyFilter(StageReactions(was.stage), ran.filter),
                           ApplyFilter(StageReactions(target), ran.filter)}

\* Await has run on a task that was not WAITING, at a stage without
\* reactions: the round ended and the task is stored as it was.
C24_NoReactions ==
    /\ ran.kind = "Await" /\ was # NoTask /\ was.status # "WAITING"
    /\ StageReactions(was.stage) = {}
    /\ error = "none" /\ op = NoneOp
    /\ store[ran.tid] = was

\* Await has run on a task that was not WAITING, with a reaction passing
\* the filter: it raised and the task is stored as it was.
C24_AttentionRaises ==
    /\ ran.kind = "Await" /\ was # NoTask /\ was.status # "WAITING"
    /\ ApplyFilter(StageReactions(was.stage), ran.filter) # {}
    /\ error = "ValidationError"
    /\ store[ran.tid] = was

\* Await has run on a task that was not WAITING, with reactions none of
\* which passes the filter: the task is stored WAITING at the target stage
\* without attentions.
C24_EmptyFilter ==
    /\ ran.kind = "Await" /\ was # NoTask /\ was.status # "WAITING"
    /\ ran.stage = "s" /\ was.stage = ""
    /\ error = "none" /\ op = NoneOp
    /\ store[ran.tid].status = "WAITING" /\ store[ran.tid].stage = "s"
    /\ store[ran.tid].attentions = {}

\* Await has run on a task that was WAITING at the target stage: it is
\* stored as it was.
C24_AlreadyWaiting ==
    /\ ran.kind = "Await" /\ was.status = "WAITING" /\ ran.stage = NoStage
    /\ was.attentions # {}
    /\ error = "none" /\ op = NoneOp /\ store[ran.tid] = was

\* C25: after DependOn(tid, s, target) with a target that is neither
\* FINISHED nor DEAD (a target that did not exist is created NEW) nothing is
\* raised, the stored target has tid among its listeners, the stored task
\* tid is DEPENDING at s, and the continuation is Activate of the target.
C25_DependOnLive ==
    (ran.kind = "DependOn" /\ was # NoTask
        /\ store[ran.target].status \notin {"FINISHED", "DEAD"}) =>
        /\ error = "none"
        /\ ran.tid \in store[ran.target].callbacks
        /\ store[ran.tid].status = "DEPENDING"
        /\ store[ran.tid].stage = ran.stage
        /\ op.kind = "Activate" /\ op.tid = ran.target

\* DependOn has run with a target that did not exist: the target is stored
\* NEW without listener, the task is stored as it was, not DEPENDING, the
\* operator raised and no Activate follows.
C25_NothingRegistered ==
    /\ ran.kind = "DependOn" /\ was # NoTask /\ was.status = "WAITING"
    /\ ran.target # ran.tid
    /\ store[ran.target].status = "NEW"
    /\ store[ran.target].callbacks = {}
    /\ store[ran.tid] = was
    /\ error = "TypeError" /\ op = NoneOp

\* DependOn has run with a stored WAITING target: nothing is registered.
C25_StoredTarget ==
    /\ ran.kind = "DependOn" /\ was # NoTask /\ was.status = "WAITING"
    /\ ran.target # ran.tid
    /\ store[ran.target].status = "WAITING"
    /\ ran.tid \notin store[ran.target].callbacks
    /\ store[ran.tid] = was
    /\ error = "TypeError"

\* The tasks that may still flip a listener: stored, not FINISHED, not DEAD.
Live(t) == store[t].status \notin {"absent", "FINISHED", "DEAD"}

C27_WitnessWithdraw ==
    /\ ran.kind \in WithdrawKinds /\ was # NoTask
    /\ \E t \in was.callbacks : store[t].status \in {"FINISHED", "DEAD"}

\* t depends on u: t is among the listeners of the stored task u.
DependsOn(t, u) == store[u] # NoTask /\ t \in store[u].callbacks

\* The tasks reached from t along depends-on in at most n steps.
RECURSIVE Targets(_, _)
Targets(t, n) ==
    IF n = 0 THEN {}
    ELSE LET direct == {u \in Tids : DependsOn(t, u)}
         IN  direct \cup UNION {Targets(u, n - 1) : u \in direct}

C28_WitnessBack ==
    /\ ran.kind = "DependOn" /\ was # NoTask /\ ran.target # ran.tid
    /\ store[ran.target].status = "DEPENDING"
    /\ DependsOn(ran.target, ran.tid)
    /\ ~DependsOn(ran.tid, ran.target)

\* C29: Schedule with both withdrawal queues empty and no fallback task
\* raises nothing; with a WAITING root it fires one Preempted event at the
\* root's stage; otherwise the process is stored quiting and no operator
\* follows, and the root's snapshot is sent to the parent, once, exactly
\* when the root is FINISHED or DEAD and the process has a parent.
C29_NoFallback ==
    [][(op.kind = "Schedule" /\ ScheduleQueues(Cur) = NoneOp
            /\ process_fallback(Cur) = NoTid) =>
          LET root == runtime_fetch_task(Cur, process.root) IN
          /\ error' = "none"
          /\ IF root.status = "WAITING"
             THEN /\ Len(fired') = 1
                  /\ fired'[1].kind = "Preempted"
                  /\ fired'[1].tid = process.root
                  /\ fired'[1].stage = root.stage
             ELSE /\ process'.quiting
                  /\ op' = NoneOp
                  /\ fired' = <<>>
                  /\ sent' = IF root.status \in {"FINISHED", "DEAD"}
                                /\ process.parent
                             THEN <<[to |-> "parent",
                                     tasked |-> to_tasked(process.root, root,
                                                          root.stage)]>>
                             ELSE <<>>]_vars

\* Schedule has run with empty queues and no fallback task, the root dead
\* and a parent process: it raised, the process is not quiting and nothing
\* was sent.
C29_ScheduleRaises ==
    /\ ran.kind = "Schedule" /\ ScheduleQueues(Cur) = NoneOp
    /\ process_fallback(Cur) = NoTid
    /\ store[process.root].status = "DEAD" /\ process.parent
    /\ error = "AttributeError"
    /\ ~process.quiting /\ sent = <<>>

\* C30: Schedule with both withdrawal queues empty and a fallback task
\* continues with Quit(fallback) when the process is quiting, whatever the
\* fallback's status; otherwise with Forward(fallback, []) when the fallback
\* is RUNNING, and otherwise it fires one Preempted event at the fallback's
\* current stage.
C30_Fallback ==
    [][(op.kind = "Schedule" /\ ScheduleQueues(Cur) = NoneOp
            /\ process_fallback(Cur) # NoTid) =>
          LET fb == process_fallback(Cur) IN
          /\ error' = "none"
          /\ IF process.quiting
             THEN op' = WithdrawOp("Quit", fb, NoStage) /\ fired' = <<>>
             ELSE IF store[fb].status = "RUNNING"
             THEN op' = ForwardOp(fb, <<>>) /\ fired' = <<>>
             ELSE /\ Len(fired') = 1
                  /\ fired'[1].kind = "Preempted"
                  /\ fired'[1].tid = fb
                  /\ fired'[1].stage = store[fb].stage]_vars

\* Schedule has run with a RUNNING fallback task in a process that is not
\* quiting: Forward of the fallback follows.
C30_Forward ==
    /\ ran.kind = "Schedule" /\ ~process.quiting
    /\ op.kind = "Forward" /\ op.stages = <<>>
    /\ op.tid = process_fallback(Cur)
    /\ store[op.tid].status = "RUNNING"

\* Schedule has run with a RUNNING fallback task in a quiting process: Quit
\* of the fallback follows.
C30_Quit ==
    /\ ran.kind = "Schedule" /\ process.quiting
    /\ op.kind = "Quit" /\ op.tid = process_fallback(Cur)
    /\ store[op.tid].status = "RUNNING"

\* Schedule has run with a fallback task that is not RUNNING in a process
\* that is not quiting: Preempted was fired at its stage.
C30_Preempted ==
    /\ ran.kind = "Schedule" /\ ~process.quiting
    /\ Len(fired) = 1 /\ fired[1].kind = "Preempted"
    /\ fired[1].tid # process.root
    /\ store[fired[1].tid].status = "WAITING"

\* C31: a round that runs Schedule on a process whose canceling or failing
\* list holds the id of a task that is not stored comes to an end: it
\* leaves Schedule and the withdrawals, or an operator raises.
C31_RoundEnds ==
    <>(op.kind \notin {"Schedule", "Cancel", "Fail", "Quit"}
          \/ error # "none")

\* Schedule has selected the id of a task that is not stored a second time:
\* Cancel (or Fail) of it has run, Schedule has run again, and the id is
\* still the first of its list.
C31_SelectedAgain ==
    /\ count >= 3
    /\ ran.kind = "Schedule" /\ error = "none"
    /\ op.kind \in {"Cancel", "Fail"}
    /\ store[op.tid] = NoTask
    /\ op = ScheduleQueues(Cur)

\* C32: after YieldTo(tid, stage, is_callback) on a stored task nothing is
\* raised; with is_callback and a parent process one input with the task's
\* snapshot at `stage` is sent to the parent, the task is stored DEAD and
\* Schedule follows; with is_callback and no parent nothing is sent, the
\* task is stored as it was and Forward(tid, [stage]) follows; without
\* is_callback one input with the snapshot is sent to the process itself,
\* the task is stored YIELDING and Schedule follows.
C32_YieldTo ==
    (ran.kind = "YieldTo" /\ was # NoTask) =>
        LET tasked == to_tasked(ran.tid, was, ran.stage) IN
        /\ error = "none"
        /\ IF ran.flag /\ process.parent
           THEN /\ sent = <<[to |-> "parent", tasked |-> tasked]>>
                /\ store[ran.tid] = [was EXCEPT !.status = "DEAD"]
                /\ op = ScheduleOp
           ELSE IF ran.flag
           THEN /\ sent = <<>>
                /\ store[ran.tid] = was
                /\ op = ForwardOp(ran.tid, <<ran.stage>>)
           ELSE /\ sent = <<[to |-> "self", tasked |-> tasked]>>
                /\ store[ran.tid] = [was EXCEPT !.status = "YIELDING"]
                /\ op = ScheduleOp

\* YieldTo has run as a callback in a process without parent: nothing was
\* sent and Forward to the stage follows.
C32_Witness ==
    /\ ran.kind = "YieldTo" /\ was # NoTask /\ ran.flag /\ ~process.parent
    /\ sent = <<>> /\ op = ForwardOp(ran.tid, <<"s">>)
    /\ store[ran.tid].status = "WAITING"

\* YieldTo has run as a callback in a process with a parent.
C32_WitnessParent ==
    /\ ran.kind = "YieldTo" /\ ran.flag /\ process.parent
    /\ Len(sent) = 1 /\ sent[1].to = "parent" /\ sent[1].tasked.stage = "s"
    /\ store[ran.tid].status = "DEAD" /\ op = ScheduleOp

\* YieldTo has run without callback.
C32_WitnessSibling ==
    /\ ran.kind = "YieldTo" /\ ~ran.flag
    /\ Len(sent) = 1 /\ sent[1].to = "self"
    /\ store[ran.tid].status = "YIELDING" /\ op = ScheduleOp

\* C33: TaskedMessage(tasked) raises nothing, stores the task of the
\* snapshot's resolver and args with the snapshot's status, and continues
\* by that status: DEAD with Cancel of the task, WAITING with Await of the
\* task at the snapshot's stage, FINISHED with Finish of the task at its
\* current stage, any other status with Forward of the task.
C33_TaskedContinues ==
    (ran.kind = "TaskedMessage" /\ input.tasked # NoTid) =>
        LET tid == input.tasked IN
        /\ error = "none"
        /\ store[tid].status = input.status
        /\ CASE input.status = "DEAD" -> op.kind = "Cancel" /\ op.tid = tid
             [] input.status = "WAITING" ->
                   op = AwaitOp(tid, input.stage, "all")
             [] input.status = "FINISHED" ->
                   op = FinishOp(tid, store[tid].stage)
             [] OTHER -> op.kind = "Forward" /\ op.tid = tid

\* TaskedMessage has run on the snapshot of a WAITING task whose local task
\* is not stored: it raised, no task was created and no operator follows.
C33_TaskedRaises ==
    /\ ran.kind = "TaskedMessage" /\ input.tasked # NoTid
    /\ input.status = "WAITING"
    /\ error = "ValidationError" /\ op = NoneOp
    /\ store[input.tasked] = NoTask

C35_IntendingContinues ==
    (ran.kind = "Intending" /\ ran.target # NoTid) =>
        /\ error = "none"
        /\ CASE was = NoTask /\ ran.stage # "" ->
                   /\ op = UnhandledInputOp /\ fired = <<>>
                   /\ store[ran.target] = NoTask
             [] was = NoTask /\ ran.stage = "" ->
                   op = ActivateOp(ran.target, "", NoTid) /\ fired = <<>>
             [] was # NoTask /\ ran.reaction \in StageReactions(ran.stage) ->
                   /\ Len(fired) = 1 /\ fired[1].kind = "react"
                   /\ fired[1].after # NoneOp => op = fired[1].after
             [] OTHER -> op = UnhandledInputOp /\ fired = <<>>

\* Intending has run on an existing task whose entry stage declares the
\* matched reaction: the reaction was invoked once and answered a Forward,
\* the round raised after it, and no operator follows.
C35_ReactedThenRaised ==
    /\ ran = IntendingOp("2", "", "a") /\ was # NoTask
    /\ Len(fired) = 1 /\ fired[1].kind = "react"
    /\ fired[1].after.kind = "Forward"
    /\ error = "AttributeError" /\ op = NoneOp

\* C36: UnhandledInput raises nothing on a process whose awaiting and root
\* tasks are stored; it fires a Received event at the awaiting task first
\* and a second one, at the root, only when the first handler answered no
\* operator and the root is another task; the first operator answered is
\* next, and Rewind(repeat=false) when none was.  A Rewind(repeat=false)
\* is followed by no operator, so the round ends without an Await.
C36_UnhandledInput ==
    /\ ran.kind = "UnhandledInput" =>
          /\ error = "none"
          /\ Len(fired) \in {1, 2}
          /\ \A i \in 1..Len(fired) : fired[i].kind = "Received"
          /\ fired[1].tid = process.awaiting
          /\ Len(fired) = 2 <=>
                (fired[1].after = NoneOp /\ process.root # process.awaiting)
          /\ Len(fired) = 2 => fired[2].tid = process.root
          /\ LET last == fired[Len(fired)].after
             IN  op = IF last # NoneOp THEN last ELSE RewindOp(FALSE)
    /\ ran = RewindOp(FALSE) => (op = NoneOp /\ error = "none")

\* UnhandledInput has asked the awaiting task and then the root, another
\* task; neither answered, and Rewind(repeat=false) is next.
C36_Witness ==
    /\ ran.kind = "UnhandledInput" /\ Len(fired) = 2
    /\ fired[1].after = NoneOp /\ fired[2].after = NoneOp
    /\ fired[1].tid # fired[2].tid
    /\ op = RewindOp(FALSE) /\ error = "none"

\* UnhandledInput has asked a root that is the awaiting task, once, without
\* an answer.
C36_WitnessRootAwaits ==
    /\ ran.kind = "UnhandledInput" /\ process.root = process.awaiting
    /\ Len(fired) = 1 /\ fired[1].after = NoneOp /\ op = RewindOp(FALSE)

\* The Rewind(repeat=false) that followed has run: no operator is left.
C36_WitnessEnds ==
    /\ count = 2 /\ ran = RewindOp(FALSE) /\ op = NoneOp /\ error = "none"

\* The own stage intentions of task t, as candidates.
OwnIntentions(t) ==
    {[kind |-> StageIntentions(c_url[t])[j], url |-> c_url[t], of |-> t] :
        j \in 1..Len(StageIntentions(c_url[t]))}

\* The blocking and the waiting tasks of the process.
BlockingAndWaiting ==
    {c_blocking[i] : i \in 1..Len(c_blocking)}
        \cup {c_waiting[i] : i \in 1..Len(c_waiting)}

\* C37: context_intentions contains the root task's own stage intentions;
\* with a PRIVATE awaiting task it contains no candidate of a blocking or
\* waiting task, and with a PUBLIC or PROTECTED awaiting task it contains
\* the own stage intentions of every blocking and every waiting task.
C37_ScopedByAwaiting ==
    c_pc = "intentions" =>
        /\ OwnIntentions(c_root) \subseteq Candidates(c_result)
        /\ c_level[c_awaiting] = "PRIVATE" =>
              \A c \in Candidates(c_result) : c.of \notin BlockingAndWaiting
        /\ c_level[c_awaiting] # "PRIVATE" =>
              \A t \in BlockingAndWaiting :
                 OwnIntentions(t) \subseteq Candidates(c_result)

\* context_intentions has answered for a PRIVATE awaiting task under a
\* PUBLIC root: the answer holds a candidate of a waiting task.
C37_PrivateLeaks ==
    /\ c_pc = "intentions" /\ c_level[c_awaiting] = "PRIVATE"
    /\ c_awaiting # c_root /\ c_level[c_root] = "PUBLIC"
    /\ \E c \in Candidates(c_result) :
          \E i \in 1..Len(c_waiting) : c.of = c_waiting[i]

\* context_intentions has answered for a PUBLIC awaiting task under a
\* PROTECTED root: a blocking task that declares intentions is left out.
C37_ProtectedRootHides ==
    /\ c_pc = "intentions" /\ c_level[c_awaiting] = "PUBLIC"
    /\ c_level[c_root] = "PROTECTED"
    /\ \E i \in 1..Len(c_blocking) :
          /\ c_attentions[c_blocking[i]] # <<>>
          /\ OwnIntentions(c_blocking[i]) # {}
          /\ OwnIntentions(c_blocking[i]) \cap Candidates(c_result) = {}

\* context_intentions has answered for a root without attentions: the
\* root's own stage intentions are left out.
C37_RootLeftOut ==
    /\ c_pc = "intentions" /\ c_attentions[c_root] = <<>>
    /\ OwnIntentions(c_root) # {}
    /\ OwnIntentions(c_root) \cap Candidates(c_result) = {}

\* C38: an Await built with an absent tid (the one Rewind(repeat=true)
\* answers) leaves process.awaiting as it is, raises nothing, and leaves
\* the awaiting task of the process stored WAITING.
C38_AwaitAbsentTid ==
    [][(op.kind = "Await" /\ op.tid = NoTid) =>
          /\ process'.awaiting = process.awaiting
          /\ error' = "none"
          /\ store'[process.awaiting].status = "WAITING"]_vars

\* Rewind(repeat=true) has answered an Await with an absent tid and that
\* Await has run: process.awaiting names a stored task, the Await raised
\* and no operator follows.
C38_RepeatRaises ==
    /\ count = 2 /\ ran = AwaitOp(NoTid, NoStage, "all")
    /\ store[process.awaiting] # NoTask
    /\ error = "AttributeError" /\ op = NoneOp

\* C39: force_fetch_stage(ctx, think, stage) returns the stage when the
\* resolver is registered and declares it, and fails with NotFound both
\* when the resolver is registered without such a stage and when the
\* resolver is not registered; it returns nothing else and fails with no
\* other kind of error.
C39_StageOrNotFound ==
    s_pc = "stage" =>
        /\ s_out.kind \in {"Stage", "MindsetNotFoundException"}
        /\ s_out.kind = "Stage" <=>
              (s_think \in s_registered /\ s_stage \in s_stages[s_think])
        /\ s_out.kind = "Stage" =>
              (s_out.think = s_think /\ s_out.stage = s_stage)

\* force_fetch_stage has been asked for a resolver the mindset does not
\* have, beside one it has: it raised an AttributeError.
C39_UnregisteredRaises ==
    /\ s_pc = "stage" /\ s_think \notin s_registered
    /\ s_registered # {}
    /\ s_out.kind = "AttributeError"

\* force_fetch_stage has been asked for a stage a registered resolver does
\* not declare: NotFound.
C39_NoSuchStage ==
    /\ s_pc = "stage" /\ s_think \in s_registered
    /\ s_stage \notin s_stages[s_think]
    /\ s_out.kind = "MindsetNotFoundException"

\* C40: fire_event invokes the stage handler once and then stores the
\* task, creating it when none existed, before the answered operator runs;
\* the stored task has the Thought's level, overdue, priority, attentions
\* (as routers) and vars and the status it had (NEW when created); when
\* the handler left the Thought as given, the level, overdue, priority,
\* routers and status of an existing task are as before the event.
C40_FireEvent ==
    e_pc \in {"fired", "ran"} =>
        /\ e_log = IF e_pc = "fired" THEN <<"on_event", "store_task">>
                   ELSE <<"on_event", "store_task", "run">>
        /\ e_task # NoETask
        /\ e_task.status = IF e_was = NoETask THEN "NEW" ELSE e_was.status
        /\ e_task.level = e_thought.level
        /\ e_task.overdue = e_thought.overdue
        /\ e_task.priority = e_thought.priority
        /\ e_task.routers = e_thought.attentions
        /\ e_task.vars = e_thought.vars
        /\ (e_thought = e_given /\ e_was # NoETask) =>
              /\ e_task.level = e_was.level
              /\ e_task.overdue = e_was.overdue
              /\ e_task.priority = e_was.priority
              /\ e_task.routers = e_was.routers
              /\ e_task.status = e_was.status

\* An event has reached a handler that left the Thought as given, on a
\* stored task with routers, a level and an overdue of its own and no
\* variables; the task is stored with all of them kept, and the answered
\* operator has run.
C40_Witness ==
    /\ e_pc = "ran" /\ e_thought = e_given
    /\ e_was.status = "WAITING" /\ e_was.routers = "[x]"
    /\ e_was.level = "PRIVATE" /\ e_was.overdue = 1
    /\ e_was.vars = VarsNone
    /\ e_task.routers = "[x]" /\ e_task.level = "PRIVATE"

\* An event has reached a handler that bound a Mind to the Thought and
\* changed nothing else: the routers of the task are stored as None.
C40_WitnessMind ==
    /\ e_pc = "fired" /\ e_was.routers = "[x]"
    /\ e_thought = MindInit(e_given) /\ e_task.routers = "None"

\* An event has created the task of its target and stored it with the
\* level the handler set.
C40_WitnessCreated ==
    /\ e_pc = "fired" /\ e_was = NoETask
    /\ e_task.status = "NEW" /\ e_task.level = "PROTECTED"
====
